---- MODULE Spec2Model ----
(***************************************************************************)
(* Agent runtime core of my-ai-office: BaseAgent.chat (the tool-execution  *)
(* loop), BaseAgent.executeTools and BaseAgent.parseResponse (the          *)
(* delegation / memory-extraction protocol), over the conversation and    *)
(* memory tables of memory/database.                                       *)
(*                                                                         *)
(* Text is a sequence of one-character strings, so that the regular        *)
(* expressions of parseResponse are evaluated character by character.      *)
(***************************************************************************)
EXTENDS Integers, Sequences, FiniteSets, TLC

\* ------------------------------------------------------------------ bounds
\* Fragments concatenated into one final text handed to parseResponse.
MaxFrags == 3
\* Requests sent to the reasoning backend in one behaviour, over all turns:
\* one per turn started and one more per tool round.
MaxRequests == 3
\* The latest value of the store's clock.
MaxClock == 1
\* Tasks created in one behaviour of the task tools.
MaxTasks == 2

\* ------------------------------------------------------------ text helpers
\* JavaScript's undefined, for an absent delegateTo / memoriesToStore.  A
\* matched role token has at least one character and a stored memory list at
\* least one record, so the empty sequence never collides with a value.
Undefined == << >>

\* \w of a JavaScript regular expression: [A-Za-z0-9_]
WordChars ==
  { "a","b","c","d","e","f","g","h","i","j","k","l","m",
    "n","o","p","q","r","s","t","u","v","w","x","y","z",
    "A","B","C","D","E","F","G","H","I","J","K","L","M",
    "N","O","P","Q","R","S","T","U","V","W","X","Y","Z",
    "0","1","2","3","4","5","6","7","8","9","_" }

\* The characters '.' does not match (no s flag).
LineTerminators == { "\n", "\r" }

\* The characters String.prototype.trim removes.
WhiteSpace == { " ", "\t", "\n", "\r" }

\* The literal heads of the two directive patterns.
DELEGATE_PREFIX == << "[","D","E","L","E","G","A","T","E",":" >>
REMEMBER_PREFIX == << "[","R","E","M","E","M","B","E","R",":" >>

\* t has the literal p at position i.
StartsWithAt(t, i, p) ==
  /\ i >= 1
  /\ i + Len(p) - 1 <= Len(t)
  /\ \A k \in 1..Len(p) : t[i + k - 1] = p[k]

\* Greedy \w*: the first position at or after i that holds no word character
\* (Len(t) + 1 when the run reaches the end of the text).
RECURSIVE WordEnd(_, _)
WordEnd(t, i) ==
  IF i <= Len(t) /\ t[i] \in WordChars THEN WordEnd(t, i + 1) ELSE i

\* Lazy (.*?)\] from position i: the position of the first "]" reached over
\* characters '.' matches; 0 when a line terminator or the end comes first.
RECURSIVE LazyDotEnd(_, _)
LazyDotEnd(t, i) ==
  IF i > Len(t) THEN 0
  ELSE IF t[i] = "]" THEN i
  ELSE IF t[i] \in LineTerminators THEN 0
  ELSE LazyDotEnd(t, i + 1)

\* /\[DELEGATE:(\w+)\]/ anchored at i: the position after the match, 0 when
\* the pattern does not match at i.
DelegateMatchAt(t, i) ==
  IF ~StartsWithAt(t, i, DELEGATE_PREFIX) THEN 0
  ELSE LET s == i + Len(DELEGATE_PREFIX)
           e == WordEnd(t, s)
       IN  IF e > s /\ e <= Len(t) /\ t[e] = "]" THEN e + 1 ELSE 0

\* Group 1 of a delegate match anchored at i.
DelegateGroup(t, i) ==
  LET s == i + Len(DELEGATE_PREFIX) IN SubSeq(t, s, WordEnd(t, s) - 1)

\* /\[REMEMBER:(\w+)\|(.*?)\]/ anchored at i: the position after the match,
\* 0 when the pattern does not match at i.
RememberMatchAt(t, i) ==
  IF ~StartsWithAt(t, i, REMEMBER_PREFIX) THEN 0
  ELSE LET s == i + Len(REMEMBER_PREFIX)
           e == WordEnd(t, s)
       IN  IF e > s /\ e <= Len(t) /\ t[e] = "|"
           THEN LET c == LazyDotEnd(t, e + 1) IN IF c = 0 THEN 0 ELSE c + 1
           ELSE 0

\* Groups 1 and 2 of a remember match anchored at i.
RememberKind(t, i) ==
  LET s == i + Len(REMEMBER_PREFIX) IN SubSeq(t, s, WordEnd(t, s) - 1)

RememberContent(t, i) ==
  LET s == i + Len(REMEMBER_PREFIX)
      e == WordEnd(t, s)
  IN  SubSeq(t, e + 1, LazyDotEnd(t, e + 1) - 1)

\* text.match(/\[DELEGATE:(\w+)\]/): the start of the leftmost match at or
\* after i, 0 when there is none.
RECURSIVE FirstDelegateFrom(_, _)
FirstDelegateFrom(t, i) ==
  IF i > Len(t) THEN 0
  ELSE IF DelegateMatchAt(t, i) # 0 THEN i
  ELSE FirstDelegateFrom(t, i + 1)

\* [...text.matchAll(/\[REMEMBER:(\w+)\|(.*?)\]/g)]: the starts of the
\* successive non-overlapping matches, scanning from i.
RECURSIVE RememberMatchesFrom(_, _)
RememberMatchesFrom(t, i) ==
  IF i > Len(t) THEN << >>
  ELSE LET e == RememberMatchAt(t, i)
       IN  IF e # 0 THEN << i >> \o RememberMatchesFrom(t, e)
           ELSE RememberMatchesFrom(t, i + 1)

\* Mutant of ReplaceDelegateFrom: the pattern without its g flag, so that
\* only the first match is replaced.
RECURSIVE ReplaceFirstDelegateFrom(_, _)
ReplaceFirstDelegateFrom(t, i) ==
  IF i > Len(t) THEN << >>
  ELSE LET e == DelegateMatchAt(t, i)
       IN  IF e # 0 THEN SubSeq(t, e, Len(t))
           ELSE << t[i] >> \o ReplaceFirstDelegateFrom(t, i + 1)

\* .replace(/\[DELEGATE:\w+\]/g, ''), scanning from i.
RECURSIVE ReplaceDelegateFrom(_, _)
ReplaceDelegateFrom(t, i) ==
  IF i > Len(t) THEN << >>
  ELSE LET e == DelegateMatchAt(t, i)
       IN  IF e # 0 THEN ReplaceDelegateFrom(t, e)
           ELSE << t[i] >> \o ReplaceDelegateFrom(t, i + 1)

\* .replace(/\[REMEMBER:\w+\|.*?\]/g, ''), scanning from i.
RECURSIVE ReplaceRememberFrom(_, _)
ReplaceRememberFrom(t, i) ==
  IF i > Len(t) THEN << >>
  ELSE LET e == RememberMatchAt(t, i)
       IN  IF e # 0 THEN ReplaceRememberFrom(t, e)
           ELSE << t[i] >> \o ReplaceRememberFrom(t, i + 1)

\* String.prototype.trim
RECURSIVE TrimStart(_)
TrimStart(t) ==
  IF Len(t) > 0 /\ t[1] \in WhiteSpace THEN TrimStart(Tail(t)) ELSE t

RECURSIVE TrimEnd(_)
TrimEnd(t) ==
  IF Len(t) > 0 /\ t[Len(t)] \in WhiteSpace
  THEN TrimEnd(SubSeq(t, 1, Len(t) - 1)) ELSE t

Trim(t) == TrimEnd(TrimStart(t))

\* type: 'preference' | 'fact' | 'task' | 'conversation'
MemoryKinds ==
  { << "p","r","e","f","e","r","e","n","c","e" >>, << "f","a","c","t" >>,
    << "t","a","s","k" >>,
    << "c","o","n","v","e","r","s","a","t","i","o","n" >> }

\* ---------------------------------------------------------- parseResponse
\* const delegateMatch = text.match(/\[DELEGATE:(\w+)\]/)
delegateMatch(text) == FirstDelegateFrom(text, 1)

\* const memoryMatches = [...text.matchAll(/\[REMEMBER:(\w+)\|(.*?)\]/g)]
memoryMatches(text) == RememberMatchesFrom(text, 1)

\* Mutant of memoriesToStore: the records are built without the agent's role.
memoriesToStoreUntagged(text, role) ==
  LET ms == memoryMatches(text)
  IN  [ k \in 1..Len(ms) |->
          [ type      |-> RememberKind(text, ms[k]),
            content   |-> RememberContent(text, ms[k]),
            metadata  |-> << >>,
            agentRole |-> "undefined" ] ]

\* memoryMatches.map(match => ({type, content, metadata: {}, agentRole}))
memoriesToStore(text, role) ==
  LET ms == memoryMatches(text)
  IN  [ k \in 1..Len(ms) |->
          [ type      |-> RememberKind(text, ms[k]),
            content   |-> RememberContent(text, ms[k]),
            metadata  |-> << >>,
            agentRole |-> role ] ]

\* text.replace(DELEGATE, '').replace(REMEMBER, '').trim()
cleanText(text) ==
  Trim(ReplaceRememberFrom(ReplaceDelegateFrom(text, 1), 1))

\* BaseAgent.parseResponse
parseResponse(text, role) ==
  [ content         |-> cleanText(text),
    delegateTo      |-> IF delegateMatch(text) # 0
                        THEN DelegateGroup(text, delegateMatch(text))
                        ELSE Undefined,
    memoriesToStore |-> IF Len(memoriesToStore(text, role)) > 0
                        THEN memoriesToStore(text, role)
                        ELSE Undefined ]

\* ------------------------------------------------------------ sample text
\* Pieces of final-answer text.  Whole directives, directive halves that only
\* form a directive once joined, malformed directives, prose and white space.
Fragments ==
  { DELEGATE_PREFIX \o << "d","e","v","]" >>,              \* [DELEGATE:dev]
    << "[","D","E","L","E" >>,                             \* [DELE
    << "G","A","T","E",":","q","a","]" >>,                 \* GATE:qa]
    REMEMBER_PREFIX \o << "f","a","c","t","|" >>,          \* [REMEMBER:fact|
    << "s","k","y","]" >>,                                 \* sky]
    REMEMBER_PREFIX \o << "k","e","y","|","v","]" >>,      \* [REMEMBER:key|v]
    REMEMBER_PREFIX \o << "k","e","y" >>,                  \* [REMEMBER:key
    << "|","v","]" >>,                                     \* |v]
    DELEGATE_PREFIX \o << "]" >>,                          \* [DELEGATE:]
    REMEMBER_PREFIX \o << "f","a","c","t","]" >>,          \* [REMEMBER:fact]
    << "D","o","n","e","." >>,                             \* Done.
    << "]" >>,
    << " " >>,
    << "\n" >> }

RECURSIVE Concat(_)
Concat(fs) == IF Len(fs) = 0 THEN << >> ELSE Head(fs) \o Concat(Tail(fs))

\* Every text made of at most MaxFrags fragments.
Texts ==
  { Concat(fs) : fs \in UNION { [1..n -> Fragments] : n \in 0..MaxFrags } }

\* --------------------------------------------------------- prompt limits
\* searchMemories(input.query as string, 10)
SearchLimit == 10
\* getMemories(undefined, this.config.role, 20)
RecentFetched == 20
\* recentMemories.slice(0, 10)
RecentShown == 10

\* ------------------------------------------------------------------ state
VARIABLES
  conversations, \* the conversation table: turns in insertion order
  memories,      \* the memory table: records in insertion order
  preferences,   \* the preference table: key -> row
  now,           \* the store's clock
  turn,          \* per agent instance: the locals of its chat() call
  requests,      \* client.messages.create calls made so far
  calls,         \* per session: chat calls started / completed / failed
  rawText,       \* parseResponse's argument (extraction specification)
  parsed,        \* parseResponse(rawText), once computed
  reparsed,      \* parseResponse(parsed.content), once computed
  tasks,         \* the task table: rows in insertion order
  lastTool,      \* the task tool executed last: its input and its result
  team,          \* chatWithTeam: where its prompt loop stands
  web            \* the web server: agents created, handlers, replies sent

storeVars == << conversations, memories, preferences, now >>
chatVars  == << conversations, memories, preferences, now, turn, requests,
                calls >>
parseVars == << rawText, parsed, reparsed >>
taskVars  == << tasks, lastTool >>
frontVars == << team, web >>
vars      == << conversations, memories, preferences, now, turn, requests,
                calls, rawText, parsed, reparsed, tasks, lastTool, team,
                web >>

\* ------------------------------------------------------- agents and tools
\* Agent instances, as constructed by `new XAgent(sessionId)`: the team chat
\* and the web server give the orchestrator and the dev agent one session;
\* a stand-alone orchestrator has a session of its own, and so has the
\* research agent of a direct chat.
Instances ==
  { [ role |-> "orchestrator", sessionId |-> "s1" ],
    [ role |-> "dev",          sessionId |-> "s1" ],
    [ role |-> "orchestrator", sessionId |-> "s2" ],
    [ role |-> "research",     sessionId |-> "s3" ] }

SessionIds == { a.sessionId : a \in Instances }

\* config.tools of each agent: the names its createTools() registers.
ToolNames(role) ==
  IF role = "orchestrator"
  THEN { "create_task", "list_tasks", "update_task", "save_preference" }
  ELSE IF role = "dev"
  THEN { "run_command", "read_file", "write_file", "list_directory",
         "search_code" }
  ELSE IF role = "research"
  THEN { "fetch_url", "search_knowledge", "save_finding" }
  ELSE { }

\* Content blocks of a backend response.
TextBlock(t) == [ type |-> "text", text |-> t ]
ToolUseBlock(id, name, input) ==
  [ type |-> "tool_use", id |-> id, name |-> name, input |-> input ]

\* The call-id of the k-th tool_use block of a response.
CallId(k) == << "toolu", k >>

\* The tool invocations a backend response requests here.
SavePreference(k, value) ==
  ToolUseBlock(CallId(k), "save_preference",
               [ key |-> "style", value |-> value, category |-> "comms" ])
ReadFile(k) == ToolUseBlock(CallId(k), "read_file", [ path |-> "a.ts" ])
SavePreferenceOf(k, key, value, category) ==
  ToolUseBlock(CallId(k), "save_preference",
               [ key |-> key, value |-> value, category |-> category ])
SaveFinding(k, content) ==
  ToolUseBlock(CallId(k), "save_finding",
               [ content |-> content, topic |-> "space",
                 source |-> "undefined" ])

\* Directives where extraction does not look: in the text block of a
\* tool-use response, and in a preference value, which save_preference
\* echoes in its result.
ToolUseText ==
  DELEGATE_PREFIX \o << "d","e","v","]"," " >>
    \o REMEMBER_PREFIX \o << "f","a","c","t","|","t","e","a","]" >>
DirectiveValue == "[DELEGATE:dev] [REMEMBER:fact|tea]"

\* The content of a tool-use response: two tool_use blocks, alone or after a
\* text block.  save_preference is a tool of the orchestrator only and
\* read_file of the dev agent only, so the second response names a tool the
\* answering agent does not have, and the first names two of them for the
\* dev agent.
\* The third response saves two more preferences, the first with an empty
\* value and in a category of its own.
ToolUseContents ==
  { << SavePreference(1, "terse"), SavePreference(2, "long") >>,
    << TextBlock(ToolUseText), ReadFile(1),
       SavePreference(2, DirectiveValue) >>,
    << SavePreferenceOf(1, "tone", "", "voice"),
       SavePreferenceOf(2, "length", "short", "comms") >> }

\* Final-answer texts.
PlainText == << "o","k" >>
DirectiveText ==
  << "D","o","n","e","."," " >> \o DELEGATE_PREFIX \o << "d","e","v","]"," " >>
    \o REMEMBER_PREFIX \o << "f","a","c","t","|","s","k","y","]" >>
    \o REMEMBER_PREFIX \o << "t","a","s","k","|","g","o","]" >>

\* A memory directive in the form the orchestrator's prompt advertises,
\* [REMEMBER:key|value], here with nothing after the bar.
KeyValueText == REMEMBER_PREFIX \o << "k","e","y","|","]" >>

\* The content of a final response: no block, one text block, or two.
FinalContents ==
  { << >>,
    << TextBlock(PlainText) >>,
    << TextBlock(DirectiveText), TextBlock(PlainText) >>,
    << TextBlock(KeyValueText) >> }

UserMessages == { << "h","i" >> }

\* The backend's script: what it may answer to each agent instance.  The
\* orchestrator of the shared session gets every response; the dev agent
\* gets those that do not depend on the orchestrator's prompt and tools;
\* the stand-alone orchestrator only ever gets a plain final answer.
Orchestrator == [ role |-> "orchestrator", sessionId |-> "s1" ]
StandAlone == [ role |-> "orchestrator", sessionId |-> "s2" ]
Researcher == [ role |-> "research", sessionId |-> "s3" ]

\* The agents of the office loop: the team chat's two and the stand-alone
\* orchestrator.
OfficeAgents == Instances \ { Researcher }

ToolUseContentsOf(a) ==
  IF a = Orchestrator THEN ToolUseContents
  ELSE IF a = StandAlone THEN { }
  ELSE { c \in ToolUseContents :
           \A k \in 1..Len(c) :
             c[k].type = "tool_use" =>
               c[k].name = "read_file" \/ c[k].input.key = "style" }

FinalContentsOf(a) ==
  IF a = Orchestrator THEN FinalContents
  ELSE IF a = StandAlone THEN { << TextBlock(PlainText) >> }
  ELSE FinalContents \ { << TextBlock(KeyValueText) >> }

\* ------------------------------------------------------ memory/database
\* An absent (undefined) role.
NoRole == "undefined"

\* The store's clock is coarse: it may tick between one chat call and the
\* next, and a write is stamped with its current value.
Timestamps == { t \in now..(now + 1) : t <= MaxClock }

\* saveConversationMessage(sessionId, message): one row appended.
saveConversationMessage(table, sessionId, message, ts) ==
  Append(table, [ sessionId |-> sessionId, role |-> message.role,
                  content |-> message.content,
                  agentRole |-> message.agentRole, timestamp |-> ts ])

\* getConversationHistory(sessionId): the session's rows, oldest first.
getConversationHistory(table, sessionId) ==
  SelectSeq(table, LAMBDA r : r.sessionId = sessionId)

\* saveMemory(memory): one row appended, stamped with the clock.
saveMemory(table, memory, ts) ==
  Append(table, [ type |-> memory.type, content |-> memory.content,
                  metadata |-> memory.metadata,
                  agentRole |-> memory.agentRole, createdAt |-> ts ])

RECURSIVE saveMemories(_, _, _)
saveMemories(table, ms, ts) ==
  IF Len(ms) = 0 THEN table
  ELSE saveMemories(saveMemory(table, Head(ms), ts), Tail(ms), ts)

\* savePreference({key, value, category}): upsert on key.
savePreference(table, p, ts) ==
  [ k \in (DOMAIN table) \cup { p.key } |->
      IF k = p.key
      THEN [ value |-> p.value, category |-> p.category, learnedAt |-> ts ]
      ELSE table[k] ]

\* The first n elements of s.
Take(s, n) == SubSeq(s, 1, IF n < Len(s) THEN n ELSE Len(s))

RECURSIVE Reverse(_)
Reverse(s) ==
  IF Len(s) = 0 THEN << >> ELSE Reverse(Tail(s)) \o << Head(s) >>

\* q occurs in t.
Contains(t, q) ==
  \E i \in 0..(Len(t) - Len(q)) : SubSeq(t, i + 1, i + Len(q)) = q

\* getMemories(type?, agentRole?, limit): the rows of that kind and role,
\* most recent first, at most limit of them.
getMemories(table, type, agentRole, limit) ==
  Take(Reverse(SelectSeq(table, LAMBDA m :
                 /\ type = Undefined \/ m.type = type
                 /\ agentRole = NoRole \/ m.agentRole = agentRole)),
       limit)

\* searchMemories(query, limit): the rows whose content contains the query,
\* most recent first, at most limit of them.
searchMemories(table, query, limit) ==
  Take(Reverse(SelectSeq(table, LAMBDA m : Contains(m.content, query))),
       limit)

\* getAllPreferences(): every row, most recently learned first.
getAllPreferences(table) ==
  LET n == Cardinality(DOMAIN table)
      order == CHOOSE f \in [1..n -> DOMAIN table] :
                 \A i, j \in 1..n :
                   i < j => /\ f[i] # f[j]
                            /\ table[f[i]].learnedAt >= table[f[j]].learnedAt
  IN  [ i \in 1..n |->
          [ key |-> order[i], value |-> table[order[i]].value,
            category |-> table[order[i]].category ] ]

\* What earlier runs of the office left in the durable store: RecentShown
\* facts of the orchestrator, the oldest first.
Digits == << "0","1","2","3","4","5","6","7","8","9" >>
StoredMemories ==
  [ k \in 1..RecentShown |->
      [ type |-> << "f","a","c","t" >>, content |-> << Digits[k] >>,
        metadata |-> << >>, agentRole |-> "orchestrator", createdAt |-> 0 ] ]

\* Task['status']
TaskStatuses == { "pending", "in_progress", "completed", "failed" }

\* An absent (undefined) status filter.
NoStatus == "undefined"

\* saveTask({description, status, assignedTo}): one row appended under a
\* generated id; the stored task is returned.
saveTask(table, task, id) ==
  Append(table, [ id |-> id, description |-> task.description,
                  status |-> task.status, assignedTo |-> task.assignedTo,
                  result |-> Undefined, completedAt |-> Undefined ])

\* getTasks(status?, assignedTo?): the matching rows, most recent first.
getTasks(table, status, assignedTo) ==
  Reverse(SelectSeq(table, LAMBDA t :
            /\ (status = NoStatus \/ t.status = status)
            /\ (assignedTo = NoRole \/ t.assignedTo = assignedTo)))

\* updateTask(id, {status, result, completedAt}): the row of that id takes
\* the status, and the result and completion time when they are given.
updateTask(table, id, updates) ==
  [ k \in 1..Len(table) |->
      IF table[k].id = id
      THEN [ table[k] EXCEPT
               !.status = updates.status,
               !.result = IF updates.result # Undefined
                          THEN updates.result ELSE @,
               !.completedAt = IF updates.completedAt # Undefined
                               THEN updates.completedAt ELSE @ ]
      ELSE table[k] ]

\* ---------------------------------------------------- buildSystemPrompt
\* The instruction text, as the sequence of its lines; a line is the
\* sequence of the pieces its template joins.
StaticPrompt(role) == << "systemPrompt", role >>
PreferencesHeader == << "## User Preferences (learned over time)" >>
CategoryLine(category) == << "### ", category >>
PreferenceLine(pref) == << "- ", pref.key, ": ", pref.value >>
RecentHeader == << "## Recent Context" >>
MemoryLine(mem) == << "- [" >> \o mem.type \o << "] " >> \o mem.content

\* Object.keys(grouped): the categories in order of first appearance.
RECURSIVE categories(_)
categories(prefs) ==
  IF Len(prefs) = 0 THEN << >>
  ELSE LET rest == categories(SubSeq(prefs, 1, Len(prefs) - 1))
           c == prefs[Len(prefs)].category
       IN  IF \E k \in 1..Len(rest) : rest[k] = c THEN rest
           ELSE Append(rest, c)

\* for (const [category, prefs] of Object.entries(grouped)) { ... }
RECURSIVE groupedLines(_, _)
groupedLines(prefs, cats) ==
  IF Len(cats) = 0 THEN << >>
  ELSE LET group == SelectSeq(prefs, LAMBDA q : q.category = Head(cats))
       IN  << CategoryLine(Head(cats)) >>
             \o [ k \in 1..Len(group) |-> PreferenceLine(group[k]) ]
             \o groupedLines(prefs, Tail(cats))

\* Mutant of recentMemories: the memories of every role.
recentMemoriesOfAll(mems, role) ==
  getMemories(mems, Undefined, NoRole, RecentFetched)

\* const recentMemories = getMemories(undefined, this.config.role, 20)
recentMemories(mems, role) ==
  getMemories(mems, Undefined, role, RecentFetched)

\* Mutant of shownMemories: no slice.
shownMemoriesAll(recent) == recent

\* recentMemories.slice(0, 10)
shownMemories(recent) == Take(recent, RecentShown)

\* Mutant of buildSystemPrompt: the text also carries the time of the build.
buildSystemPromptDated(role, prefs, mems) ==
  << StaticPrompt(role), << "Current time: ", now >> >>

\* BaseAgent.buildSystemPrompt, against the store (prefs, mems).
buildSystemPrompt(role, prefs, mems) ==
  LET all == getAllPreferences(prefs)
      recent == recentMemories(mems, role)
      shown == shownMemories(recent)
  IN  << StaticPrompt(role) >>
        \o (IF Len(all) > 0
            THEN << PreferencesHeader >> \o groupedLines(all, categories(all))
            ELSE << >>)
        \o (IF Len(recent) > 0
            THEN << RecentHeader >>
                   \o [ k \in 1..Len(shown) |-> MemoryLine(shown[k]) ]
            ELSE << >>)

\* ------------------------------------------------------------------ tools
\* Mutant of execute: save_preference confirms without calling
\* savePreference.
executeUnsaved(name, input, store, clock) ==
  IF name = "save_preference"
  THEN { [ threw |-> FALSE,
           value |-> << "Preference saved", input.key, input.value >>,
           preferences |-> store.preferences,
           memories |-> store.memories ],
         [ threw |-> TRUE, value |-> << "store unavailable" >>,
           preferences |-> store.preferences,
           memories |-> store.memories ] }
  ELSE { [ threw |-> FALSE, value |-> << "read_file", input.path >>,
           preferences |-> store.preferences,
           memories |-> store.memories ] }

\* Mutant of execute: save_preference and save_finding return their
\* confirmation, and their write reaches the store only after the turn.
executeDeferred(name, input, store, clock) ==
  IF name = "save_preference"
  THEN { [ threw |-> FALSE,
           value |-> << "Preference saved", input.key, input.value >>,
           preferences |-> store.preferences,
           memories |-> store.memories ] }
  ELSE IF name = "save_finding"
  THEN { [ threw |-> FALSE,
           value |-> << "Finding saved under topic", input.topic >>,
           preferences |-> store.preferences,
           memories |-> store.memories ] }
  ELSE { [ threw |-> FALSE, value |-> << "read_file", input.path >>,
           preferences |-> store.preferences,
           memories |-> store.memories ] }

\* What tool.execute(input) may do, for the tools the backend requests here:
\* the set of [threw, value, preferences, memories] it can end with, from
\* the store's [preferences, memories].
\*   save_preference: savePreference(...) then a confirmation; a failing
\*     store makes savePreference, and so execute, throw.
\*   save_finding: saveMemory of a fact of the research role, then a
\*     confirmation; a failing store makes it throw.
\*   read_file: returns the file's text, or (catching its own I/O error) the
\*     error as ordinary text; either way it returns.
execute(name, input, store, clock) ==
  IF name = "save_preference"
  THEN { [ threw |-> FALSE,
           value |-> << "Preference saved", input.key, input.value >>,
           preferences |-> savePreference(store.preferences, input, clock),
           memories |-> store.memories ],
         [ threw |-> TRUE, value |-> << "store unavailable" >>,
           preferences |-> store.preferences,
           memories |-> store.memories ] }
  ELSE IF name = "save_finding"
  THEN { [ threw |-> FALSE,
           value |-> << "Finding saved under topic", input.topic >>,
           preferences |-> store.preferences,
           memories |-> saveMemory(store.memories,
             [ type |-> << "f","a","c","t" >>, content |-> input.content,
               metadata |-> << << "topic", input.topic >>,
                               << "source", input.source >> >>,
               agentRole |-> "research" ], clock) ],
         [ threw |-> TRUE, value |-> << "store unavailable" >>,
           preferences |-> store.preferences,
           memories |-> store.memories ] }
  ELSE { [ threw |-> FALSE, value |-> << "read_file", input.path >>,
           preferences |-> store.preferences,
           memories |-> store.memories ] }

\* this.config.tools?.find(t => t.name === toolCall.name)
findTool(role, name) == name \in ToolNames(role)

\* The for loop of executeTools, from position i: the next tool call whose
\* tool is found (calls with no tool are passed over without a result);
\* Len(toolCalls) + 1 when the loop runs off the end.
RECURSIVE nextCall(_, _, _)
nextCall(role, toolCalls, i) ==
  IF i > Len(toolCalls) THEN i
  ELSE IF findTool(role, toolCalls[i].name) THEN i
  ELSE nextCall(role, toolCalls, i + 1)

\* results.push({type: 'tool_result', tool_use_id, content: result})
toolResult(toolCall, result) ==
  [ type |-> "tool_result", tool_use_id |-> toolCall.id,
    content |-> result, is_error |-> FALSE ]

\* Mutant of toolError: the caught failure is pushed without is_error.
toolErrorUnflagged(toolCall, message) ==
  [ type |-> "tool_result", tool_use_id |-> toolCall.id,
    content |-> << "Error: " >> \o message, is_error |-> FALSE ]

\* results.push({..., content: `Error: ${message}`, is_error: true})
toolError(toolCall, message) ==
  [ type |-> "tool_result", tool_use_id |-> toolCall.id,
    content |-> << "Error: " >> \o message, is_error |-> TRUE ]

\* Mutant of pushResult: results.unshift(result).
pushResultFront(results, result) == << result >> \o results

\* results.push(result)
pushResult(results, result) == Append(results, result)

\* response.content.filter(block => block.type === 'tool_use')
toolUseBlocks(content) == SelectSeq(content, LAMBDA b : b.type = "tool_use")

\* Mutant of responseText: the last text block instead of the first.
RECURSIVE lastResponseText(_)
lastResponseText(content) ==
  IF Len(content) = 0 THEN << >>
  ELSE IF content[Len(content)].type = "text" THEN content[Len(content)].text
  ELSE lastResponseText(SubSeq(content, 1, Len(content) - 1))

\* response.content.find(block => block.type === 'text')?.text || ''
RECURSIVE responseText(_)
responseText(content) ==
  IF Len(content) = 0 THEN << >>
  ELSE IF Head(content).type = "text" THEN Head(content).text
  ELSE responseText(Tail(content))

\* ------------------------------------------------------------------- chat
\* chatWithTeam before its first prompt, and the server before its first
\* request: no agent is in the cache and no handler awaits a chat.
\* `turns` counts the chats entered for the message typed last, `agent` is
\* the role whose chat is awaited, `error` what the catch block printed.
TeamIdle ==
  [ pc |-> "prompt", message |-> << >>, turns |-> 0, agent |-> "none",
    error |-> "none" ]
WebIdle == [ agents |-> { }, replies |-> << >>, up |-> TRUE ]

IdleTurn ==
  [ pc |-> "idle", userMessage |-> << >>, messages |-> << >>,
    response |-> << >>, toolCalls |-> << >>, i |-> 0, running |-> FALSE,
    pending |-> << >>, results |-> << >>, log |-> << >>,
    backendCalls |-> 0, toolUseResponses |-> 0, toolRounds |-> 0,
    responseText |-> << >>, returned |-> << >>, system |-> << >>,
    delegated |-> FALSE ]

InFlight(a)  == turn[a].pc \in { "awaiting", "tools" }

\* The callers modelled here (the team chat, the direct chat and the
\* stand-alone prompt loops) await each chat before they issue the next.
NoTurnInFlight == \A a \in Instances : ~InFlight(a)

Init ==
  /\ conversations = << >>
  /\ memories = StoredMemories
  /\ preferences = << >>
  /\ now = 0
  /\ turn = [ a \in Instances |-> IdleTurn ]
  /\ requests = 0
  /\ calls = [ s \in SessionIds |->
                 [ started |-> 0, completed |-> 0, failed |-> 0 ] ]
  /\ tasks = << >>
  /\ lastTool = << >>
  /\ team = TeamIdle
  /\ web = WebIdle
  /\ rawText = << >>
  /\ parsed = << >>
  /\ reparsed = << >>

\* Mutant of toMessages: only the user's turns are replayed.
toMessagesOfUser(history) ==
  LET own == SelectSeq(history, LAMBDA m : m.role = "user")
  IN  [ k \in 1..Len(own) |->
          [ role |-> own[k].role, content |-> own[k].content ] ]

\* history.map(m => ({role: m.role, content: m.content}))
toMessages(history) ==
  [ k \in 1..Len(history) |->
      [ role |-> history[k].role, content |-> history[k].content ] ]

\* { role: 'user', content: userMessage }
userTurn(userMessage) ==
  [ role |-> "user", content |-> userMessage, agentRole |-> NoRole ]

\* Mutant of assistantTurn: the reply is saved under the user's role.
assistantTurnAsUser(text, role) ==
  [ role |-> "user", content |-> text, agentRole |-> role ]

\* { role: 'assistant', content: responseText, agentRole: this.config.role }
assistantTurn(text, role) ==
  [ role |-> "assistant", content |-> text, agentRole |-> role ]

\* Mutant of withCurrent: the current message is pushed without the check.
withCurrentAlways(messages, userMessage) ==
  Append(messages, [ role |-> "user", content |-> userMessage ])

\* "Add current message if not already in history"
withCurrent(messages, userMessage) ==
  IF Len(messages) = 0 \/ messages[Len(messages)].content # userMessage
  THEN Append(messages, [ role |-> "user", content |-> userMessage ])
  ELSE messages

\* chat(userMessage) up to its first await: the user turn is saved, the
\* history is read back and the first backend request is sent.  What the
\* earlier chat calls returned has been consumed by their callers.
\* `delegated` records which caller issued the chat: the team chat's
\* delegation branch, or a prompt of the user.
BeginChat(a, userMessage, delegated) ==
  /\ requests < MaxRequests
  /\ \E ts \in Timestamps :
       LET table == saveConversationMessage(conversations, a.sessionId,
                                            userTurn(userMessage), ts)
           history == getConversationHistory(table, a.sessionId)
       IN  /\ conversations' = table
           /\ now' = ts
           /\ turn' = [ b \in Instances |->
                IF b = a
                THEN [ IdleTurn EXCEPT
                         !.pc = "awaiting",
                         !.userMessage = userMessage,
                         !.messages = withCurrent(toMessages(history),
                                                  userMessage),
                         !.system = buildSystemPrompt(a.role, preferences,
                                                      memories),
                         !.backendCalls = 1,
                         !.delegated = delegated ]
                ELSE IF InFlight(b) THEN turn[b] ELSE IdleTurn ]
  /\ requests' = requests + 1
  /\ calls' = [ calls EXCEPT ![a.sessionId].started = @ + 1 ]
  /\ UNCHANGED << memories, preferences, parseVars, taskVars >>

\* A caller that awaits each chat before it issues the next one.
ChatStart(a, userMessage) ==
  /\ NoTurnInFlight
  /\ BeginChat(a, userMessage, FALSE)
  /\ UNCHANGED frontVars

\* The keys of the AGENTS table, as a [DELEGATE:key] directive spells them.
AgentKey(role) ==
  IF role = "dev" THEN << "d","e","v" >>
  ELSE IF role = "research" THEN << "r","e","s","e","a","r","c","h" >>
  ELSE IF role = "comms" THEN << "c","o","m","m","s" >>
  ELSE IF role = "workflow" THEN << "w","o","r","k","f","l","o","w" >>
  ELSE << "o","r","c","h","e","s","t","r","a","t","o","r" >>

\* chatWithTeam after `await orchestrator.chat(message)` has returned: when
\* the response names an agent of the AGENTS table, that agent is
\* constructed on the team chat's session and is given the same message.
TeamDelegate(o, a) ==
  /\ o = Orchestrator
  /\ turn[o].pc = "returned"
  /\ turn[o].returned.delegateTo # Undefined
  /\ a.sessionId = o.sessionId
  /\ AgentKey(a.role) = turn[o].returned.delegateTo
  /\ NoTurnInFlight
  /\ BeginChat(a, turn[o].userMessage, TRUE)
  /\ UNCHANGED frontVars

\* executeTools from the call after t.i up to its next await: calls whose
\* tool is not found are passed over, the next found tool's execute is
\* entered (its store effect happens here), and the loop waits for it.
StartNextTool(a, t) ==
  LET j == nextCall(a.role, t.toolCalls, t.i + 1)
  IN  IF j > Len(t.toolCalls)
      THEN /\ turn' = [ turn EXCEPT ![a] =
                          [ t EXCEPT !.i = j, !.running = FALSE ] ]
           /\ UNCHANGED << preferences, memories, now >>
      ELSE \E out \in execute(t.toolCalls[j].name, t.toolCalls[j].input,
                              [ preferences |-> preferences,
                                memories |-> memories ], now) :
             /\ turn' = [ turn EXCEPT ![a] =
                  [ t EXCEPT !.i = j, !.running = TRUE, !.pending = out,
                      !.log = Append(@, << "start", t.toolCalls[j].id >>) ] ]
             /\ preferences' = out.preferences
             /\ memories' = out.memories
             /\ UNCHANGED now

\* The backend answers with stop_reason 'tool_use': the loop body starts.
BackendToolUse(a, content) ==
  /\ turn[a].pc = "awaiting"
  /\ requests < MaxRequests
  /\ StartNextTool(a, [ turn[a] EXCEPT
                          !.pc = "tools",
                          !.response = content,
                          !.toolCalls = toolUseBlocks(content),
                          !.i = 0,
                          !.results = << >>,
                          !.log = << >>,
                          !.toolUseResponses = @ + 1 ])
  /\ UNCHANGED << conversations, requests, calls, parseVars,
                  taskVars, frontVars >>

\* `await tool.execute(...)` settles: the result, or the caught error, is
\* pushed and the for loop goes on.
ToolFinish(a) ==
  /\ turn[a].pc = "tools"
  /\ turn[a].running
  /\ LET t == turn[a]
         c == t.toolCalls[t.i]
         r == IF t.pending.threw THEN toolError(c, t.pending.value)
              ELSE toolResult(c, t.pending.value)
     IN  StartNextTool(a, [ t EXCEPT
                              !.results = pushResult(@, r),
                              !.pending = << >>,
                              !.log = Append(@, << "end", c.id,
                                                   t.pending.threw,
                                                   t.pending.value >>) ])
  /\ UNCHANGED << conversations, requests, calls, parseVars,
                  taskVars, frontVars >>

\* Mutant of ToolsDone: the tool-result message is also saved to the log.
ToolsDonePersisted(a) ==
  /\ turn[a].pc = "tools"
  /\ ~turn[a].running
  /\ turn[a].i > Len(turn[a].toolCalls)
  /\ turn' = [ turn EXCEPT ![a] =
       [ @ EXCEPT
           !.pc = "awaiting",
           !.messages = @ \o
              << [ role |-> "assistant", content |-> turn[a].response ],
                 [ role |-> "user", content |-> turn[a].results ] >>,
           !.system = buildSystemPrompt(a.role, preferences, memories),
           !.toolRounds = @ + 1,
           !.backendCalls = @ + 1 ] ]
  /\ requests' = requests + 1
  /\ conversations' = saveConversationMessage(conversations, a.sessionId,
       [ role |-> "user", content |-> turn[a].results,
         agentRole |-> NoRole ], now)
  /\ UNCHANGED << memories, preferences, now, calls, parseVars,
                  taskVars, frontVars >>

\* Mutant of ToolsDone: the directives of the tool-use response's text are
\* extracted and stored.
ToolsDoneExtracting(a) ==
  /\ turn[a].pc = "tools"
  /\ ~turn[a].running
  /\ turn[a].i > Len(turn[a].toolCalls)
  /\ turn' = [ turn EXCEPT ![a] =
       [ @ EXCEPT
           !.pc = "awaiting",
           !.messages = @ \o
              << [ role |-> "assistant", content |-> turn[a].response ],
                 [ role |-> "user", content |-> turn[a].results ] >>,
           !.system = buildSystemPrompt(a.role, preferences, memories),
           !.toolRounds = @ + 1,
           !.backendCalls = @ + 1 ] ]
  /\ requests' = requests + 1
  /\ memories' = saveMemories(memories,
       memoriesToStore(responseText(turn[a].response), a.role), now)
  /\ UNCHANGED << conversations, preferences, now, calls, parseVars,
                  taskVars, frontVars >>

\* `await this.executeTools(...)` settles: both messages are pushed and the
\* backend is called again.
ToolsDone(a) ==
  /\ turn[a].pc = "tools"
  /\ ~turn[a].running
  /\ turn[a].i > Len(turn[a].toolCalls)
  /\ turn' = [ turn EXCEPT ![a] =
       [ @ EXCEPT
           !.pc = "awaiting",
           !.messages = @ \o
              << [ role |-> "assistant", content |-> turn[a].response ],
                 [ role |-> "user", content |-> turn[a].results ] >>,
           !.system = buildSystemPrompt(a.role, preferences, memories),
           !.toolRounds = @ + 1,
           !.backendCalls = @ + 1 ] ]
  /\ requests' = requests + 1
  /\ UNCHANGED << storeVars, calls, parseVars, taskVars, frontVars >>

\* The backend answers with another stop_reason: the assistant turn is
\* saved, the directives are extracted, the memories stored, and chat
\* returns.
ChatReturn(a, content) ==
  /\ turn[a].pc = "awaiting"
  /\ \E ts \in { now } :
       LET text == responseText(content)
           agentResponse == parseResponse(text, a.role)
       IN  /\ conversations' = saveConversationMessage(conversations,
                 a.sessionId, assistantTurn(text, a.role), ts)
           /\ memories' = saveMemories(memories,
                                       agentResponse.memoriesToStore, ts)
           /\ now' = ts
           /\ turn' = [ turn EXCEPT ![a] =
                [ IdleTurn EXCEPT
                    !.pc = "returned",
                    !.userMessage = turn[a].userMessage,
                    !.backendCalls = turn[a].backendCalls,
                    !.toolUseResponses = turn[a].toolUseResponses,
                    !.toolRounds = turn[a].toolRounds,
                    !.response = content,
                    !.responseText = text,
                    !.returned = agentResponse ] ]
  /\ calls' = [ calls EXCEPT ![a.sessionId].completed = @ + 1 ]
  /\ UNCHANGED << preferences, requests, parseVars, taskVars >>

\* A caller that reacts to the returned response in a later step.
BackendFinal(a, content) ==
  /\ ChatReturn(a, content)
  /\ UNCHANGED frontVars

\* Mutant of MemoryWriteFail: the turn's writes are rolled back.
MemoryWriteRolledBack(a, content, j) ==
  /\ turn[a].pc = "awaiting"
  /\ j \in 1..Len(memoriesToStore(responseText(content), a.role))
  /\ turn' = [ turn EXCEPT ![a] =
       [ IdleTurn EXCEPT
           !.pc = "storeFailed",
           !.userMessage = turn[a].userMessage,
           !.backendCalls = turn[a].backendCalls,
           !.toolUseResponses = turn[a].toolUseResponses,
           !.toolRounds = turn[a].toolRounds,
           !.response = content,
           !.responseText = responseText(content) ] ]
  /\ calls' = [ calls EXCEPT ![a.sessionId].failed = @ + 1 ]
  /\ UNCHANGED << storeVars, requests, parseVars, taskVars, frontVars >>

\* The backend answers with another stop_reason and the store fails at the
\* j-th saveMemory of the loop: the assistant turn and the memories before
\* the j-th are stored, and chat throws to its caller.
MemoryWriteFail(a, content, j) ==
  /\ turn[a].pc = "awaiting"
  /\ LET text == responseText(content)
         ms == memoriesToStore(text, a.role)
     IN  /\ j \in 1..Len(ms)
         /\ conversations' = saveConversationMessage(conversations,
               a.sessionId, assistantTurn(text, a.role), now)
         /\ memories' = saveMemories(memories, SubSeq(ms, 1, j - 1), now)
         /\ turn' = [ turn EXCEPT ![a] =
              [ IdleTurn EXCEPT
                  !.pc = "storeFailed",
                  !.userMessage = turn[a].userMessage,
                  !.backendCalls = turn[a].backendCalls,
                  !.toolUseResponses = turn[a].toolUseResponses,
                  !.toolRounds = turn[a].toolRounds,
                  !.response = content,
                  !.responseText = text ] ]
  /\ calls' = [ calls EXCEPT ![a.sessionId].failed = @ + 1 ]
  /\ UNCHANGED << preferences, now, requests, parseVars, taskVars, frontVars >>

\* Mutant of BackendFail: the rejected request is sent again.
BackendFailRetried(a) ==
  /\ turn[a].pc = "awaiting"
  /\ requests < MaxRequests
  /\ turn' = [ turn EXCEPT ![a].backendCalls = @ + 1 ]
  /\ requests' = requests + 1
  /\ UNCHANGED << storeVars, calls, parseVars, taskVars, frontVars >>

\* client.messages.create rejects: chat throws to its caller.
ChatThrow(a) ==
  /\ turn[a].pc = "awaiting"
  /\ turn' = [ turn EXCEPT ![a] =
       [ IdleTurn EXCEPT
           !.pc = "failed",
           !.userMessage = turn[a].userMessage,
           !.backendCalls = turn[a].backendCalls,
           !.toolUseResponses = turn[a].toolUseResponses,
           !.toolRounds = turn[a].toolRounds ] ]
  /\ calls' = [ calls EXCEPT ![a.sessionId].failed = @ + 1 ]
  /\ UNCHANGED << storeVars, requests, parseVars, taskVars >>

BackendFail(a) ==
  /\ ChatThrow(a)
  /\ UNCHANGED frontVars

Next ==
  \/ \E a \in OfficeAgents, m \in UserMessages : ChatStart(a, m)
  \/ \E o \in OfficeAgents, a \in OfficeAgents : TeamDelegate(o, a)
  \/ \E a \in OfficeAgents : \E c \in ToolUseContentsOf(a) :
       BackendToolUse(a, c)
  \/ \E a \in OfficeAgents : ToolFinish(a)
  \/ \E a \in OfficeAgents : ToolsDone(a)
  \/ \E a \in OfficeAgents : \E c \in FinalContentsOf(a) :
       BackendFinal(a, c)
  \/ \E a \in OfficeAgents : BackendFail(a)

Spec == Init /\ [][Next]_vars

\* ------------------------------------------------------- rounds of tools
\* The loop of the two agents whose tools write what the prompt shows: the
\* orchestrator (save_preference) and the research agent (save_finding).
\* The backend asks each for one round of two writes and then answers.
RoundAgents == { Orchestrator, Researcher }

RoundContentsOf(a) ==
  IF a = Orchestrator
  THEN { << SavePreference(1, "terse"), SavePreference(2, "long") >>,
         << SavePreferenceOf(1, "tone", "warm", "voice"),
            SavePreference(2, "terse") >> }
  ELSE { << SaveFinding(1, << "m","o","o","n" >>),
            SaveFinding(2, << "s","u","n" >>) >> }

NextRounds ==
  \/ \E a \in RoundAgents, m \in UserMessages : ChatStart(a, m)
  \/ \E a \in RoundAgents : \E c \in RoundContentsOf(a) :
       BackendToolUse(a, c)
  \/ \E a \in RoundAgents : ToolFinish(a)
  \/ \E a \in RoundAgents : ToolsDone(a)
  \/ \E a \in RoundAgents : BackendFinal(a, << TextBlock(PlainText) >>)
  \/ \E a \in RoundAgents : BackendFail(a)

SpecRounds == Init /\ [][NextRounds]_vars

\* ------------------------------------------------------ a store that fails
\* The loop with a store whose memory writes can fail.
MaxDirectives == 2

NextStore ==
  \/ Next
  \/ \E a \in OfficeAgents : \E c \in FinalContentsOf(a) :
       \E j \in 1..MaxDirectives : MemoryWriteFail(a, c, j)

SpecStore == Init /\ [][NextStore]_vars

\* -------------------------------------------------------------- web server
\* The agents getAgent creates: one instance per role, all constructed with
\* the server's one sessionId.
WebSession == "s1"
WebAgents == { a \in Instances : a.sessionId = WebSession }

\* app.post('/api/chat'): a request with a message reaches
\* `await agent.chat(message)`.  The handler is async and nothing queues the
\* requests: one can arrive while the chat of another awaits the backend or
\* a tool.
\* getAgent puts the agent of the role in the cache on its first use.
PostChat(a, message) ==
  /\ a \in WebAgents
  /\ web.up
  /\ message # << >>
  /\ ~InFlight(a)
  /\ BeginChat(a, message, FALSE)
  /\ web' = [ web EXCEPT !.agents = @ \cup { a.role } ]
  /\ UNCHANGED team

\* Requests the handler rejects, over one behaviour.
MaxRejected == 1

\* A response of the handler: its status and the agent that was asked.
Response(status, role) == [ status |-> status, role |-> role ]
Rejections == { k \in 1..Len(web.replies) : web.replies[k].status = 400 }

\* app.post('/api/chat') with a body whose message is missing or empty:
\* `!message` holds and the handler returns 400 before getAgent.
PostChatEmpty(message) ==
  /\ web.up
  /\ message = << >>
  /\ Cardinality(Rejections) < MaxRejected
  /\ web' = [ web EXCEPT !.replies = Append(@, Response(400, NoRole)) ]
  /\ UNCHANGED << storeVars, chatVars, parseVars, taskVars, team >>

\* The handler when its chat returns: chat runs from the backend's final
\* response to its return without a further await, and the handler's
\* continuation follows before the server takes up another event.
PostChatReturn(a, content) ==
  /\ web.up
  /\ ChatReturn(a, content)
  /\ web' = [ web EXCEPT !.replies = Append(@, Response(200, a.role)) ]
  /\ UNCHANGED team

\* Mutant of PostChatThrow: a chat that throws is not caught; the
\* rejection of the handler's promise ends the process.
PostChatUncaught(a) ==
  /\ web.up
  /\ ChatThrow(a)
  /\ web' = [ web EXCEPT !.up = FALSE ]
  /\ UNCHANGED team

\* The handler when its chat throws: the catch block answers 500.
PostChatThrow(a) ==
  /\ web.up
  /\ ChatThrow(a)
  /\ web' = [ web EXCEPT !.replies = Append(@, Response(500, a.role)) ]
  /\ UNCHANGED team

\* req.body.message of the requests that name agent a: the clients of the
\* two agents send different texts.
WebMessages(a) ==
  IF a = Orchestrator THEN UserMessages ELSE { << "y","o" >> }

\* The backend's script for the web session: the orchestrator may be asked
\* for a round of tools and ends with a plain answer or with directives;
\* the dev agent answers at once.
WebToolUseContentsOf(a) ==
  IF a = Orchestrator
  THEN { << SavePreference(1, "terse"), SavePreference(2, "long") >> }
  ELSE { }

WebFinalContentsOf(a) ==
  IF a = Orchestrator
  THEN { << TextBlock(PlainText) >>,
         << TextBlock(DirectiveText), TextBlock(PlainText) >> }
  ELSE { << TextBlock(PlainText) >> }

\* req.body.message of the requests the handler rejects: a missing message
\* and an empty string are both falsy, and both are the empty text here.
EmptyMessages == { << >> }

NextWeb ==
  \/ \E a \in WebAgents : \E m \in WebMessages(a) : PostChat(a, m)
  \/ \E a \in WebAgents : \E c \in WebToolUseContentsOf(a) :
       BackendToolUse(a, c)
  \/ \E a \in WebAgents : ToolFinish(a)
  \/ \E a \in WebAgents : ToolsDone(a)
  \/ \E a \in WebAgents : \E c \in WebFinalContentsOf(a) :
       BackendFinal(a, c)
  \/ \E a \in WebAgents : BackendFail(a)

SpecWeb == Init /\ [][NextWeb]_vars

\* The server with its responses on record: every request is answered at
\* once by the backend, with a plain final response or with a failure.
NextServer ==
  \/ \E a \in WebAgents : \E m \in WebMessages(a) : PostChat(a, m)
  \/ \E m \in EmptyMessages : PostChatEmpty(m)
  \/ \E a \in WebAgents : PostChatReturn(a, << TextBlock(PlainText) >>)
  \/ \E a \in WebAgents : PostChatThrow(a)

SpecServer == Init /\ [][NextServer]_vars

\* --------------------------------------------------------------- team chat
\* The roles of the AGENTS table.
AgentRoles == { "orchestrator", "dev", "research", "comms", "workflow" }

\* Names every object literal inherits from Object.prototype and that \w+
\* can spell: AGENTS[name] is then a function or an object, not undefined.
InheritedKeys ==
  { << "c","o","n","s","t","r","u","c","t","o","r" >>,
    << "t","o","S","t","r","i","n","g" >>,
    << "v","a","l","u","e","O","f" >> }

\* AGENTS[key]: the entry of the role whose key it is; for an inherited
\* name a truthy value that has no Agent property; undefined otherwise.
NoAgent == "undefined"

AGENTS(key) ==
  IF \E r \in AgentRoles : AgentKey(r) = key
  THEN [ truthy |-> TRUE,
         Agent |-> CHOOSE r \in AgentRoles : AgentKey(r) = key ]
  ELSE IF key \in InheritedKeys
  THEN [ truthy |-> TRUE, Agent |-> NoAgent ]
  ELSE [ truthy |-> FALSE, Agent |-> NoAgent ]

\* The agents chatWithTeam constructs, all on the sessionId it was given.
TeamAgents == { a \in Instances : a.sessionId = Orchestrator.sessionId }

\* The backend's script for the team chat.  The orchestrator ends with a
\* plain answer or with a hand-off: to the dev agent, to a name the table
\* does not have, or to a name the table inherits.  The dev agent ends with
\* a plain answer or with an answer that itself asks for a hand-off.
DelegateText(key) == DELEGATE_PREFIX \o key \o << "]" >>

TeamFinalContentsOf(a) ==
  IF a = Orchestrator
  THEN { << TextBlock(PlainText) >>,
         << TextBlock(DelegateText(AgentKey("dev"))) >>,
         << TextBlock(DelegateText(<< "q","a" >>)) >>,
         << TextBlock(DelegateText(<< "c","o","n","s","t","r","u","c","t",
                                      "o","r" >>)) >> }
  ELSE { << TextBlock(PlainText) >>,
         << TextBlock(DirectiveText), TextBlock(PlainText) >> }

\* prompt(): the user types a message other than "back" and the
\* orchestrator's chat is entered.
TeamPrompt(message) ==
  /\ team.pc = "prompt"
  /\ NoTurnInFlight
  /\ BeginChat(Orchestrator, message, FALSE)
  /\ team' = [ pc |-> "orchestrator", message |-> message, turns |-> 1,
               agent |-> "orchestrator", error |-> "none" ]
  /\ UNCHANGED web

\* `await orchestrator.chat(message)` has returned with a delegateTo whose
\* table entry has an Agent: the agent is constructed on the same session
\* and its chat is entered with the same message.
TeamHandOff(a) ==
  /\ team.pc = "orchestrator"
  /\ turn[Orchestrator].pc = "returned"
  /\ turn[Orchestrator].returned.delegateTo # Undefined
  /\ LET agentInfo == AGENTS(turn[Orchestrator].returned.delegateTo)
     IN  /\ agentInfo.truthy
         /\ agentInfo.Agent # NoAgent
         /\ a \in TeamAgents
         /\ a.role = agentInfo.Agent
  /\ BeginChat(a, team.message, TRUE)
  /\ team' = [ team EXCEPT !.pc = "delegated", !.turns = @ + 1,
                           !.agent = a.role ]
  /\ UNCHANGED web

\* The orchestrator's chat has returned without a delegateTo, or with one
\* for which AGENTS[...] is undefined: the loop prompts again.
TeamNoHandOff ==
  /\ team.pc = "orchestrator"
  /\ turn[Orchestrator].pc = "returned"
  /\ \/ turn[Orchestrator].returned.delegateTo = Undefined
     \/ ~AGENTS(turn[Orchestrator].returned.delegateTo).truthy
  /\ team' = [ team EXCEPT !.pc = "prompt" ]
  /\ UNCHANGED << storeVars, chatVars, parseVars, taskVars, web >>

\* The orchestrator's chat has returned with a delegateTo for which
\* AGENTS[...] is truthy but has no Agent: `new agentInfo.Agent(sessionId)`
\* throws a TypeError, which the catch block prints as an error.
TeamBadKey ==
  /\ team.pc = "orchestrator"
  /\ turn[Orchestrator].pc = "returned"
  /\ turn[Orchestrator].returned.delegateTo # Undefined
  /\ LET agentInfo == AGENTS(turn[Orchestrator].returned.delegateTo)
     IN  agentInfo.truthy /\ agentInfo.Agent = NoAgent
  /\ team' = [ team EXCEPT !.pc = "prompt", !.error = "TypeError" ]
  /\ UNCHANGED << storeVars, chatVars, parseVars, taskVars, web >>

\* The delegated agent's chat has returned: its content is printed, its
\* delegateTo is not read, and the loop prompts again.
TeamDelegatedDone ==
  /\ team.pc = "delegated"
  /\ \E a \in TeamAgents : a.role = team.agent /\ turn[a].pc = "returned"
  /\ team' = [ team EXCEPT !.pc = "prompt" ]
  /\ UNCHANGED << storeVars, chatVars, parseVars, taskVars, web >>

\* An awaited chat has thrown: the catch block prints the error and the
\* loop prompts again.
TeamCatch ==
  /\ team.pc \in { "orchestrator", "delegated" }
  /\ \E a \in TeamAgents : a.role = team.agent /\ turn[a].pc = "failed"
  /\ team' = [ team EXCEPT !.pc = "prompt", !.error = "Error" ]
  /\ UNCHANGED << storeVars, chatVars, parseVars, taskVars, web >>

NextTeam ==
  \/ \E m \in UserMessages : TeamPrompt(m)
  \/ \E a \in TeamAgents : TeamHandOff(a)
  \/ TeamNoHandOff
  \/ TeamBadKey
  \/ TeamDelegatedDone
  \/ TeamCatch
  \/ \E a \in TeamAgents : \E c \in TeamFinalContentsOf(a) :
       BackendFinal(a, c)
  \/ \E a \in TeamAgents : BackendFail(a)

SpecTeam == Init /\ [][NextTeam]_vars

\* ------------------------------------------- extraction, as a state machine
\* The role of the agent whose parseResponse is exercised.
ParseRole == "orchestrator"

\* parsed and reparsed hold no result at first, then the one result.
ParseInit ==
  /\ rawText \in Texts
  /\ parsed = << >>
  /\ reparsed = << >>
  /\ conversations = << >>
  /\ memories = << >>
  /\ preferences = << >>
  /\ now = 0
  /\ turn = [ a \in Instances |-> IdleTurn ]
  /\ requests = 0
  /\ calls = [ s \in SessionIds |->
                 [ started |-> 0, completed |-> 0, failed |-> 0 ] ]
  /\ tasks = << >>
  /\ lastTool = << >>
  /\ team = TeamIdle
  /\ web = WebIdle

\* agent.parseResponse(rawText)
Parse ==
  /\ Len(parsed) = 0
  /\ parsed' = << parseResponse(rawText, ParseRole) >>
  /\ UNCHANGED << rawText, reparsed, chatVars, taskVars, frontVars >>

\* agent.parseResponse(visibleText) on the visible text of the first pass
Reparse ==
  /\ Len(parsed) = 1
  /\ Len(reparsed) = 0
  /\ reparsed' = << parseResponse(parsed[1].content, ParseRole) >>
  /\ UNCHANGED << rawText, parsed, chatVars, taskVars, frontVars >>

ParseNext == Parse \/ Reparse

SpecParse == ParseInit /\ [][ParseNext]_vars

\* ----------------------------------------------------------- task tools
\* The tools of the orchestrator and of the workflow agent that write the
\* task table, executed by executeTools with the input the backend sent.
\* The input schema is sent to the backend but is not checked against the
\* input that comes back: a status is whatever string the backend wrote.
TaskAgents == { "orchestrator", "workflow" }
StatusInputs == { "in_progress", "completed", "done" }
Descriptions == { << "x" >> }

\* Generated ids: a time part shared by the tasks of one period and a
\* random suffix.
IdSuffixes == { "a", "b" }
TaskId(k, suffix) == << "t", Digits[k + 1], suffix >>

\* The ids the backend may name: those a task can have, and one that no
\* task has.
UnknownId == << "t", "0", "z" >>
TaskIds ==
  { TaskId(k, x) : k \in 1..MaxTasks, x \in IdSuffixes } \cup { UnknownId }

\* What the backend may write as update_task's taskId: for the
\* orchestrator a whole id, known or not; for the workflow agent a part.
IdFragments == { << >>, << "t" >>, << "b" >>, << "z" >> }

\* new Date()
Date == << "date" >>

\* The fields update_task passes to updateTask.
taskUpdates(input) ==
  [ status |-> input.status, result |-> input.result,
    completedAt |-> IF input.status = "completed" THEN Date ELSE Undefined ]

\* tasks.find(t => t.id.includes(taskIdPart)): the index of the first
\* listed task whose id contains the part, 0 for undefined.
RECURSIVE findFrom(_, _, _)
findFrom(listing, taskIdPart, k) ==
  IF k > Len(listing) THEN 0
  ELSE IF Contains(listing[k].id, taskIdPart) THEN k
  ELSE findFrom(listing, taskIdPart, k + 1)

\* Mutant of find: the last listed task whose id contains the part.
findLast(listing, taskIdPart) ==
  IF \A k \in 1..Len(listing) : ~Contains(listing[k].id, taskIdPart)
  THEN 0
  ELSE CHOOSE k \in 1..Len(listing) :
         /\ Contains(listing[k].id, taskIdPart)
         /\ \A j \in (k + 1)..Len(listing) :
              ~Contains(listing[j].id, taskIdPart)

find(listing, taskIdPart) == findFrom(listing, taskIdPart, 1)

TaskInit ==
  /\ tasks = << >>
  /\ lastTool = << >>
  /\ team = TeamIdle
  /\ web = WebIdle
  /\ rawText = << >>
  /\ parsed = << >>
  /\ reparsed = << >>
  /\ conversations = << >>
  /\ memories = << >>
  /\ preferences = << >>
  /\ now = 0
  /\ turn = [ a \in Instances |-> IdleTurn ]
  /\ requests = 0
  /\ calls = [ s \in SessionIds |->
                 [ started |-> 0, completed |-> 0, failed |-> 0 ] ]

\* create_task of either agent.
CreateTask(role, input) ==
  /\ Len(tasks) < MaxTasks
  /\ \E x \in IdSuffixes :
       LET id == TaskId(Len(tasks) + 1, x)
       IN  /\ tasks' = saveTask(tasks,
                         [ description |-> input.description,
                           status |-> "pending",
                           assignedTo |-> input.assignTo ], id)
           /\ lastTool' = [ role |-> role, name |-> "create_task",
                            input |-> input,
                            result |-> << "Task created", id,
                                          input.description >> ]
  /\ UNCHANGED << chatVars, parseVars, frontVars >>

\* The orchestrator's update_task: the id is handed to the store as it is.
OrchestratorUpdateTask(input) ==
  /\ tasks' = updateTask(tasks, input.taskId, taskUpdates(input))
  /\ lastTool' = [ role |-> "orchestrator", name |-> "update_task",
                   input |-> input,
                   result |-> << "Task updated to", input.taskId,
                                 input.status >> ]
  /\ UNCHANGED << chatVars, parseVars, frontVars >>

\* The workflow agent's update_task: the id may be partial.
WorkflowUpdateTask(input) ==
  LET listing == getTasks(tasks, NoStatus, NoRole)
      k == find(listing, input.taskId)
  IN  /\ IF k = 0
         THEN /\ tasks' = tasks
              /\ lastTool' = [ role |-> "workflow", name |-> "update_task",
                               input |-> input,
                               result |-> << "Task not found",
                                             input.taskId >> ]
         ELSE /\ tasks' = updateTask(tasks, listing[k].id,
                                     taskUpdates(input))
              /\ lastTool' = [ role |-> "workflow", name |-> "update_task",
                               input |-> input,
                               result |-> << "Task updated",
                                             listing[k].description,
                                             input.status >> ]
      /\ UNCHANGED << chatVars, parseVars, frontVars >>

CreateInputs ==
  { [ description |-> d, assignTo |-> NoRole ] : d \in Descriptions }
UpdateInputs(ids) ==
  { [ taskId |-> i, status |-> st, result |-> Undefined ] :
      i \in ids, st \in StatusInputs }

TaskNext ==
  \/ \E r \in TaskAgents, input \in CreateInputs : CreateTask(r, input)
  \/ \E input \in UpdateInputs(TaskIds) : OrchestratorUpdateTask(input)
  \/ \E input \in UpdateInputs(IdFragments) : WorkflowUpdateTask(input)

SpecTasks == TaskInit /\ [][TaskNext]_vars

\* ================================================================ claims
\* Helpers of the claims: directives described by where the patterns match
\* in the raw text, independently of the scans that parseResponse runs.
SetMin(S) == CHOOSE x \in S : \A y \in S : x <= y

RECURSIVE SortedSeq(_)
SortedSeq(S) ==
  IF S = { } THEN << >> ELSE << SetMin(S) >> \o SortedSeq(S \ { SetMin(S) })

\* Positions at which a delegation / memory directive starts in t.
DelegateStarts(t) == { i \in 1..Len(t) : DelegateMatchAt(t, i) # 0 }
RememberStarts(t) == { i \in 1..Len(t) : RememberMatchAt(t, i) # 0 }

\* The memory directives of t in text order: those that do not start inside
\* an earlier one.
MemoryStarts(t) ==
  CHOOSE S \in SUBSET RememberStarts(t) :
    \A i \in RememberStarts(t) :
      i \in S <=> ~ \E j \in S : j < i /\ i < RememberMatchAt(t, j)

\* Positions covered by the delegation / memory directives of t.
DelegateSpan(t) ==
  { p \in 1..Len(t) :
      \E i \in DelegateStarts(t) : i <= p /\ p < DelegateMatchAt(t, i) }
MemorySpan(t) ==
  { p \in 1..Len(t) :
      \E i \in MemoryStarts(t) : i <= p /\ p < RememberMatchAt(t, i) }

\* t with the characters at the positions in drop deleted.
RECURSIVE KeepFrom(_, _, _)
KeepFrom(t, drop, i) ==
  IF i > Len(t) THEN << >>
  ELSE IF i \in drop THEN KeepFrom(t, drop, i + 1)
  ELSE << t[i] >> \o KeepFrom(t, drop, i + 1)
Keep(t, drop) == KeepFrom(t, drop, 1)

\* v can be obtained from w by deleting characters.
RECURSIVE IsSubseq(_, _)
IsSubseq(v, w) ==
  IF Len(v) = 0 THEN TRUE
  ELSE IF Len(w) = 0 THEN FALSE
  ELSE IF Head(v) = Head(w) THEN IsSubseq(Tail(v), Tail(w))
  ELSE IsSubseq(v, Tail(w))

\* The position of the first c at or after i (Len(t) + 1 when there is none).
RECURSIVE IndexOf(_, _, _)
IndexOf(t, c, i) ==
  IF i > Len(t) \/ t[i] = c THEN i ELSE IndexOf(t, c, i + 1)

\* The text of the first text block of a response, '' when it has none.
FirstTextOf(content) ==
  LET idx == { k \in 1..Len(content) : content[k].type = "text" }
  IN  IF idx = { } THEN << >> ELSE content[SetMin(idx)].text

\* The tool calls of a round whose tool the agent has.
FoundCalls(a) ==
  SelectSeq(turn[a].toolCalls, LAMBDA c : c.name \in ToolNames(a.role))

\* The executeTools call of a's current round has returned.
RoundDone(a) ==
  \/ turn[a].pc = "awaiting"
  \/ turn[a].pc = "tools" /\ ~turn[a].running
       /\ turn[a].i > Len(turn[a].toolCalls)

\* ----------------------------------------------------------------------- C1
\* C1: in every session the history is in non-decreasing timestamp order and
\* holds exactly one user turn per chat call started on the session and
\* exactly one assistant turn per chat call that completed; a call that
\* failed at the backend, or is still running, has none.
C1_HistoryOrderedOneTurnPerCall ==
  \A s \in SessionIds :
    LET h == getConversationHistory(conversations, s)
        inFlight == { a \in Instances : a.sessionId = s /\ InFlight(a) }
    IN  /\ \A i, j \in 1..Len(h) :
             i <= j => h[i].timestamp <= h[j].timestamp
        /\ Len(SelectSeq(h, LAMBDA r : r.role = "user")) = calls[s].started
        /\ Len(SelectSeq(h, LAMBDA r : r.role = "assistant"))
             = calls[s].completed
        /\ calls[s].started
             = calls[s].completed + calls[s].failed + Cardinality(inFlight)

\* A session with two calls started, one completed and one failed, whose
\* history spans a tick of the clock.
C1_Witness ==
  \E s \in SessionIds :
    LET h == getConversationHistory(conversations, s)
    IN  /\ calls[s].started = 2
        /\ calls[s].completed = 1
        /\ calls[s].failed = 1
        /\ Len(h) = 3
        /\ h[1].timestamp < h[3].timestamp

\* ----------------------------------------------------------------------- C2
\* C2: the assistant turn chat appends is the visible text of the reply,
\* tagged with the agent's role, and no persisted assistant turn contains a
\* directive that extraction recognises.
C2_AssistantTurnIsVisibleText ==
  /\ \A a \in Instances :
       turn[a].pc = "returned" =>
         LET h == getConversationHistory(conversations, a.sessionId)
         IN  /\ Len(h) > 0
             /\ h[Len(h)].role = "assistant"
             /\ h[Len(h)].agentRole = a.role
             /\ h[Len(h)].content = turn[a].returned.content
  /\ \A k \in 1..Len(conversations) :
       conversations[k].role = "assistant" =>
         /\ DelegateStarts(conversations[k].content) = { }
         /\ RememberStarts(conversations[k].content) = { }

\* ----------------------------------------------------------------------- C3
\* C3: when the backend is re-invoked after a tool round, the tool-result
\* message holds exactly one tool_result block for each call-id the round
\* requested, also for a call whose tool the agent does not have.
C3_OneResultPerCallId ==
  \A a \in Instances :
    turn[a].pc = "awaiting" /\ turn[a].toolRounds > 0 =>
      LET m == turn[a].messages
          requested == toolUseBlocks(m[Len(m) - 1].content)
          results == m[Len(m)].content
      IN  \A k \in 1..Len(requested) :
            Cardinality({ j \in 1..Len(results) :
                            results[j].tool_use_id = requested[k].id }) = 1

\* ----------------------------------------------------------------------- C4
\* C4: a tool whose execute raised has exactly one result for its call-id,
\* flagged is_error and carrying "Error: " and the failure's description;
\* the calls after it are still executed before the round ends; and chat
\* fails only while it awaits the backend, never inside a tool round.
C4_ToolFailureBecomesErrorResult ==
  \A a \in Instances :
    LET t == turn[a]
    IN  /\ t.pc \in { "tools", "awaiting" } =>
             \A k \in 1..Len(t.log) :
               (t.log[k][1] = "end" /\ t.log[k][3]) =>
                 /\ Cardinality({ j \in 1..Len(t.results) :
                       t.results[j].tool_use_id = t.log[k][2] }) = 1
                 /\ \A j \in 1..Len(t.results) :
                      t.results[j].tool_use_id = t.log[k][2] =>
                        /\ t.results[j].is_error
                        /\ t.results[j].content
                             = << "Error: " >> \o t.log[k][4]
        /\ (t.pc \in { "tools", "awaiting" } /\ RoundDone(a)) =>
             \A c \in 1..Len(FoundCalls(a)) :
               \E k \in 1..Len(t.log) :
                 t.log[k][1] = "end" /\ t.log[k][2] = FoundCalls(a)[c].id
        /\ t.pc = "failed" => t.toolRounds = t.toolUseResponses

\* A finished round whose first tool raised and whose second tool then ran
\* and returned.
C4_Witness ==
  \E a \in Instances :
    /\ turn[a].pc = "awaiting"
    /\ Len(turn[a].results) = 2
    /\ turn[a].results[1].is_error
    /\ ~turn[a].results[2].is_error

\* ----------------------------------------------------------------------- C5
\* C5: within a round the tools are executed one at a time and in the order
\* requested: the log alternates start and end of one call, the calls appear
\* in request order, a tool is running exactly between its start and its
\* end, and the results are in that same order.
C5_ToolsRunOneAtATimeInOrder ==
  \A a \in Instances :
    turn[a].pc \in { "tools", "awaiting" } =>
      LET t == turn[a]
          found == FoundCalls(a)
      IN  /\ Len(t.log) <= 2 * Len(found)
          /\ \A k \in 1..Len(t.log) :
               /\ t.log[k][1] = (IF k % 2 = 1 THEN "start" ELSE "end")
               /\ t.log[k][2] = found[(k + 1) \div 2].id
          /\ t.running <=> (Len(t.log) % 2 = 1)
          /\ Len(t.results) = Len(t.log) \div 2
          /\ \A j \in 1..Len(t.results) :
               t.results[j].tool_use_id = found[j].id
          /\ RoundDone(a) => Len(t.log) = 2 * Len(found)

\* A finished round of two executed tools, with both results in request
\* order.
C5_Witness ==
  \E a \in Instances :
    /\ turn[a].pc = "awaiting"
    /\ Len(turn[a].log) = 4
    /\ Len(turn[a].results) = 2
    /\ turn[a].results[1].tool_use_id = CallId(1)
    /\ turn[a].results[2].tool_use_id = CallId(2)

\* ----------------------------------------------------------------------- C6
\* C6: after n tool-use responses chat has run n tool rounds and made n + 1
\* backend calls when it awaits the backend or has returned (inside round n
\* it has made n calls and finished n - 1 rounds), and what it returns is
\* the visible text of the final response's first text block, '' when the
\* response has no text block.
C6_NRoundsThenFinalAnswer ==
  \A a \in Instances :
    LET t == turn[a]
    IN  /\ t.pc \in { "awaiting", "returned" } =>
             /\ t.toolRounds = t.toolUseResponses
             /\ t.backendCalls = t.toolUseResponses + 1
        /\ t.pc = "tools" =>
             /\ t.toolRounds + 1 = t.toolUseResponses
             /\ t.backendCalls = t.toolUseResponses
        /\ t.pc = "returned" =>
             t.returned.content = cleanText(FirstTextOf(t.response))

\* A turn that returned after two tool rounds, its final response holding
\* two text blocks.
C6_Witness ==
  \E a \in Instances :
    /\ turn[a].pc = "returned"
    /\ turn[a].toolUseResponses = 2
    /\ turn[a].toolRounds = 2
    /\ turn[a].backendCalls = 3
    /\ Len(turn[a].response) = 2
    /\ turn[a].returned.content = << "D","o","n","e","." >>

\* ----------------------------------------------------------------------- C7
\* C7: extraction is idempotent: parseResponse of the visible text returns
\* that same visible text, no delegation target and no memory record.
C7_ExtractionIdempotent ==
  Len(reparsed) = 1 =>
    /\ reparsed[1].content = parsed[1].content
    /\ reparsed[1].delegateTo = Undefined
    /\ reparsed[1].memoriesToStore = Undefined

\* ----------------------------------------------------------------------- C8
\* C8: with k >= 1 delegation directives in the text, delegateTo is the role
\* token of the first in text order and all k are deleted from the text
\* before the memory directives are stripped and the result trimmed; with
\* k = 0 delegateTo is absent.
C8_FirstDelegateHonouredAllRemoved ==
  Len(parsed) = 1 =>
    LET D == DelegateStarts(rawText)
        first == SetMin(D)
    IN  /\ D = { } => parsed[1].delegateTo = Undefined
        /\ D # { } =>
             parsed[1].delegateTo
               = SubSeq(rawText, first + Len(DELEGATE_PREFIX),
                        IndexOf(rawText, "]", first) - 1)
        /\ parsed[1].content
             = Trim(ReplaceRememberFrom(Keep(rawText, DelegateSpan(rawText)),
                                        1))

\* A text with two delegation directives naming different roles, the first
\* of them qa.
C8_Witness ==
  /\ Len(parsed) = 1
  /\ Cardinality(DelegateStarts(rawText)) = 2
  /\ parsed[1].delegateTo = << "q","a" >>
  /\ DelegateStarts(parsed[1].content) = { }

\* ----------------------------------------------------------------------- C9
\* C9: the memory records are, one for one and in text order, the memory
\* directives of the text, each with its kind, its content, empty metadata
\* and the agent's role; and no character of a directive that produced a
\* record is left in the visible text.
C9_MemoriesMatchDirectivesAndAreStripped ==
  Len(parsed) = 1 =>
    LET M == SortedSeq(MemoryStarts(rawText))
        recs == parsed[1].memoriesToStore
        bar(i) == IndexOf(rawText, "|", i)
    IN  /\ Len(recs) = Len(M)
        /\ \A k \in 1..Len(M) :
             recs[k] =
               [ type |-> SubSeq(rawText, M[k] + Len(REMEMBER_PREFIX),
                                 bar(M[k]) - 1),
                 content |-> SubSeq(rawText, bar(M[k]) + 1,
                                    IndexOf(rawText, "]", bar(M[k])) - 1),
                 metadata |-> << >>,
                 agentRole |-> ParseRole ]
        /\ IsSubseq(parsed[1].content, Keep(rawText, MemorySpan(rawText)))

\* ---------------------------------------------------------------------- C10
\* C10: bracketed text that matches neither grammar yields no delegation and
\* no memory record, and the visible text is the raw text with only its
\* matched directives deleted, trimmed.
C10_OnlyMatchedDirectivesDeleted ==
  Len(parsed) = 1 =>
    /\ DelegateStarts(rawText) = { } => parsed[1].delegateTo = Undefined
    /\ MemoryStarts(rawText) = { } => parsed[1].memoriesToStore = Undefined
    /\ parsed[1].content
         = Trim(Keep(rawText,
                     DelegateSpan(rawText) \cup MemorySpan(rawText)))

\* ---------------------------------------------------------------------- C11
\* C11: in every reachable state every stored memory has a non-empty content
\* and every stored preference a non-empty value.
C11_StoredContentNonEmpty ==
  /\ \A k \in 1..Len(memories) : Len(memories[k].content) > 0
  /\ \A key \in DOMAIN preferences : preferences[key].value # ""

\* ---------------------------------------------------------------------- C12
\* C12: every memory written to the store has one of the enumerated memory
\* kinds, whatever kind token its directive carried.
C12_StoredKindEnumerated ==
  \A k \in 1..Len(memories) : memories[k].type \in MemoryKinds

\* ---------------------------------------------------------------------- C13
\* The preference writes a step performs: a step enters at most one tool's
\* execute, and a save_preference that does not throw has written its input.
PreferenceWritten(a) ==
  /\ turn'[a].pc = "tools"
  /\ turn'[a].running
  /\ turn'[a].log # turn[a].log
  /\ turn'[a].toolCalls[turn'[a].i].name = "save_preference"
  /\ ~turn'[a].pending.threw

\* C13: the preference table changes only by save_preference writes, and a
\* write of (key, value, category) leaves exactly the rows of the keys
\* written so far, the row of key holding that value and category and every
\* other row as it was: one row per key ever written, holding its last write.
C13_PreferenceUpsert ==
  [][ /\ (\A a \in Instances : ~PreferenceWritten(a)) =>
           preferences' = preferences
      /\ \A a \in Instances :
           PreferenceWritten(a) =>
             LET p == turn'[a].toolCalls[turn'[a].i].input
             IN  /\ DOMAIN preferences' = DOMAIN preferences \cup { p.key }
                 /\ preferences'[p.key].value = p.value
                 /\ preferences'[p.key].category = p.category
                 /\ \A k \in DOMAIN preferences \ { p.key } :
                      preferences'[k] = preferences[k] ]_vars

\* A round that wrote the key style twice, terse then long, after an earlier
\* round wrote other keys: style holds long, the other rows are still there.
C13_Witness ==
  \E a \in Instances :
    /\ turn[a].pc = "awaiting"
    /\ Len(turn[a].results) = 2
    /\ ~turn[a].results[1].is_error
    /\ ~turn[a].results[2].is_error
    /\ turn[a].toolCalls[1] = SavePreference(1, "terse")
    /\ turn[a].toolCalls[2] = SavePreference(2, "long")
    /\ DOMAIN preferences = { "style", "tone", "length" }
    /\ preferences["style"].value = "long"
    /\ preferences["style"].category = "comms"

\* ---------------------------------------------------------------------- C14
\* Kind and content of the memory directive of t that starts at i.
DirectiveKind(t, i) ==
  SubSeq(t, i + Len(REMEMBER_PREFIX), IndexOf(t, "|", i) - 1)
DirectiveContent(t, i) ==
  SubSeq(t, IndexOf(t, "|", i) + 1,
         IndexOf(t, "]", IndexOf(t, "|", i)) - 1)

\* The texts that occur in c.
Substrings(c) ==
  { SubSeq(c, i, j) : i \in 1..(Len(c) + 1), j \in 0..Len(c) }

\* rows has a memory of this kind, content and role.
Returns(rows, kind, content, role) ==
  \E k \in 1..Len(rows) :
    /\ rows[k].type = kind
    /\ rows[k].content = content
    /\ rows[k].agentRole = role

\* C14: once chat has returned, every memory directive [REMEMBER:kind|c] of
\* its final text is in the store as a memory of that kind and content with
\* the agent's role, and a read filtered to the kind and a search for any
\* substring of c return it.
C14_RememberRoundTrip ==
  \A a \in Instances :
    turn[a].pc = "returned" =>
      \A i \in MemoryStarts(turn[a].responseText) :
        LET kind == DirectiveKind(turn[a].responseText, i)
            c == DirectiveContent(turn[a].responseText, i)
        IN  /\ Returns(memories, kind, c, a.role)
            /\ Returns(getMemories(memories, kind, NoRole, RecentFetched),
                       kind, c, a.role)
            /\ \A q \in Substrings(c) :
                 Returns(searchMemories(memories, q, SearchLimit),
                         kind, c, a.role)

\* The dev agent has returned from a chat whose final text held
\* [REMEMBER:fact|sky], and a search for "k" finds the fact.
C14_Witness ==
  \E a \in Instances :
    /\ a.role = "dev"
    /\ turn[a].pc = "returned"
    /\ turn[a].responseText = DirectiveText
    /\ Returns(searchMemories(memories, << "k" >>, SearchLimit),
               << "f","a","c","t" >>, << "s","k","y" >>, "dev")

\* ---------------------------------------------------------------------- C15
\* The memories role owns, oldest first.
OwnMemories(role) == SelectSeq(memories, LAMBDA m : m.agentRole = role)

\* The positions of the memory lines of an instruction text.
MemoryLines(sys) == { k \in 1..Len(sys) : sys[k][1] = "- [" }

\* C15: the instruction text sent for an agent of role r has the key: value
\* line of every preference in the table, whoever wrote it, and every memory
\* line in it is the line of a memory r owns, with no more memory lines than
\* r owns memories.
C15_PreferencesGlobalMemoriesScoped ==
  \A a \in Instances :
    turn[a].pc = "awaiting" =>
      LET sys == turn[a].system
          own == OwnMemories(a.role)
      IN  /\ \A key \in DOMAIN preferences :
               \E k \in 1..Len(sys) :
                 sys[k] = << "- ", key, ": ", preferences[key].value >>
          /\ \A k \in MemoryLines(sys) :
               \E j \in 1..Len(own) :
                 sys[k] = << "- [" >> \o own[j].type \o << "] " >>
                            \o own[j].content
          /\ Cardinality(MemoryLines(sys)) <= Len(own)

\* The dev agent awaits the backend with instructions that list a preference
\* the orchestrator's tool wrote and none of the orchestrator's memories.
C15_Witness ==
  \E a \in Instances :
    /\ a.role = "dev"
    /\ turn[a].pc = "awaiting"
    /\ "style" \in DOMAIN preferences
    /\ \E k \in 1..Len(turn[a].system) : turn[a].system[k][1] = "- "
    /\ MemoryLines(turn[a].system) = { }
    /\ Len(OwnMemories("orchestrator")) > 0

\* ---------------------------------------------------------------------- C16
\* C16: the instruction text is the static prompt; then, when there are
\* preferences, their header and one group per category, every category
\* once and every preference once, under its own category; then, when the
\* role owns memories, the recent-context header and the lines of its
\* RecentShown most recent memories, the most recent first.
C16_SectionsInOrderTenMostRecent ==
  \A a \in Instances :
    turn[a].pc = "awaiting" =>
      LET sys == turn[a].system
          own == OwnMemories(a.role)
          n == IF Len(own) < RecentShown THEN Len(own) ELSE RecentShown
          recent == IF n = 0 THEN << >>
                    ELSE << << "## Recent Context" >> >> \o
                         [ k \in 1..n |->
                             << "- [" >> \o own[Len(own) + 1 - k].type
                               \o << "] " >> \o own[Len(own) + 1 - k].content ]
          p == Len(sys) - Len(recent)
          keys == DOMAIN preferences
          cats == { preferences[k].category : k \in keys }
          line(k) == << "- ", k, ": ", preferences[k].value >>
          header(i) == CHOOSE j \in 3..i :
                         /\ sys[j][1] = "### "
                         /\ \A h \in (j + 1)..i : sys[h][1] # "### "
      IN  /\ Len(sys) >= 1 + Len(recent)
          /\ sys[1] = << "systemPrompt", a.role >>
          /\ SubSeq(sys, p + 1, Len(sys)) = recent
          /\ keys = { } => p = 1
          /\ keys # { } =>
               /\ p = 2 + Cardinality(cats) + Cardinality(keys)
               /\ sys[2] = << "## User Preferences (learned over time)" >>
               /\ sys[3][1] = "### "
               /\ \A c \in cats :
                    Cardinality({ i \in 3..p : sys[i] = << "### ", c >> }) = 1
               /\ \A k \in keys :
                    Cardinality({ i \in 3..p : sys[i] = line(k) }) = 1
               /\ \A i \in 3..p :
                    sys[i][1] # "### " =>
                      \E k \in keys :
                        /\ sys[i] = line(k)
                        /\ sys[header(i)]
                             = << "### ", preferences[k].category >>

\* The orchestrator awaits the backend with both sections in its
\* instructions while it owns RecentShown + 1 memories: the last line is its
\* second-oldest memory, and the oldest is not listed.
C16_Witness ==
  \E a \in Instances :
    LET sys == turn[a].system
        own == OwnMemories(a.role)
    IN  /\ turn[a].pc = "awaiting"
        /\ Len(own) = RecentShown + 1
        /\ DOMAIN preferences # { }
        /\ sys[2] = PreferencesHeader
        /\ Cardinality(MemoryLines(sys)) = RecentShown
        /\ sys[Len(sys)] = MemoryLine(own[2])
        /\ \A k \in 1..Len(sys) : sys[k] # MemoryLine(own[1])

C18_BackendFailurePropagates ==
  /\ [] (\A a \in Instances :
           turn[a].pc = "failed" =>
             LET h == getConversationHistory(conversations, a.sessionId)
             IN  /\ Len(h) > 0
                 /\ h[Len(h)].role = "user"
                 /\ h[Len(h)].content = turn[a].userMessage
                 /\ turn[a].backendCalls = turn[a].toolRounds + 1)
  /\ [][ /\ \A a \in Instances :
              (turn[a].pc = "awaiting" /\ turn'[a].pc = "failed") =>
                /\ conversations' = conversations
                /\ memories' = memories
                /\ preferences' = preferences
                /\ requests' = requests
                /\ calls'[a.sessionId].failed = calls[a.sessionId].failed + 1
                /\ calls'[a.sessionId].completed
                     = calls[a.sessionId].completed
         /\ \A a \in Instances :
              (turn[a].pc = "awaiting" /\ turn'[a].pc = "awaiting") =>
                turn'[a].backendCalls = turn[a].backendCalls
         /\ memories' # memories =>
              \E a \in Instances :
                turn[a].pc = "awaiting" /\ turn'[a].pc = "returned" ]_vars

\* A chat that failed at its second backend call, after a tool round: the
\* session's last turn is its user turn.
C18_Witness ==
  \E a \in Instances :
    LET h == getConversationHistory(conversations, a.sessionId)
    IN  /\ turn[a].pc = "failed"
        /\ turn[a].toolRounds = 1
        /\ turn[a].backendCalls = 2
        /\ h[Len(h)].role = "user"
        /\ calls[a.sessionId].failed = 1
        /\ calls[a.sessionId].completed = 0

\* ---------------------------------------------------------------------- C19
\* C19: at no time are two turns in flight on one session: a chat on a
\* session starts only when every earlier chat on it has returned or failed.
C19_OneTurnInFlightPerSession ==
  \A s \in SessionIds :
    Cardinality({ a \in Instances : a.sessionId = s /\ InFlight(a) }) <= 1

\* ---------------------------------------------------------------------- C20
\* The rows of session s in the conversation table, in the order written.
SessionRows(s) ==
  LET K == SortedSeq({ k \in DOMAIN conversations :
                         conversations[k].sessionId = s })
  IN  [ j \in 1..Len(K) |-> conversations[K[j]] ]

DevAgent == [ role |-> "dev", sessionId |-> Orchestrator.sessionId ]

\* C20: in team chat the delegated agent is started on the orchestrator's
\* session only once the orchestrator's chat has returned and its assistant
\* turn is the last row of the session; and the messages of the delegated
\* agent's first request are the role and content of every row of the
\* session, whoever wrote it, the orchestrator's assistant turn included.
C20_DelegatedAgentSeesWholeSession ==
  /\ [] (\A a \in Instances :
           (turn[a].delegated /\ turn[a].pc = "awaiting"
              /\ turn[a].backendCalls = 1) =>
             LET rows == SessionRows(a.sessionId)
             IN  /\ a.sessionId = Orchestrator.sessionId
                 /\ ~InFlight(Orchestrator)
                 /\ Len(turn[a].messages) = Len(rows)
                 /\ \A k \in 1..Len(rows) :
                      /\ turn[a].messages[k].role = rows[k].role
                      /\ turn[a].messages[k].content = rows[k].content
                 /\ Len(rows) >= 3
                 /\ rows[Len(rows) - 1].role = "assistant"
                 /\ rows[Len(rows) - 1].agentRole = Orchestrator.role
                 /\ rows[Len(rows)].role = "user")
  /\ [][ \A a \in Instances :
           (turn'[a].delegated /\ ~turn[a].delegated) =>
             LET rows == SessionRows(a.sessionId)
             IN  /\ turn[Orchestrator].pc = "returned"
                 /\ calls[a.sessionId].completed
                      + calls[a.sessionId].failed
                      = calls[a.sessionId].started
                 /\ Len(rows) >= 2
                 /\ rows[Len(rows)].role = "assistant"
                 /\ rows[Len(rows)].agentRole = Orchestrator.role
                 /\ rows[Len(rows)].content = turn[Orchestrator].responseText
                 /\ turn'[a].userMessage = turn[Orchestrator].userMessage
       ]_vars

\* The dev agent, delegated to by the orchestrator's first reply, awaits its
\* first response: its request carries the user's turn, the orchestrator's
\* assistant turn and its own user turn.
C20_Witness ==
  /\ turn[DevAgent].delegated
  /\ turn[DevAgent].pc = "awaiting"
  /\ turn[DevAgent].backendCalls = 1
  /\ Len(turn[DevAgent].messages) = 3
  /\ turn[DevAgent].messages[1].role = "user"
  /\ turn[DevAgent].messages[2].role = "assistant"
  /\ turn[DevAgent].messages[2].content = DirectiveText
  /\ turn[DevAgent].messages[3].role = "user"
  /\ turn[DevAgent].messages[3].content = turn[DevAgent].userMessage

\* ---------------------------------------------------------------------- C21
\* C21: whatever create_task and update_task calls were made, every task's
\* status is one of pending, in_progress, completed, failed; and an
\* update_task call leaves the number of tasks, their ids and their
\* descriptions as they were.
C21_TaskStatusEnumerated ==
  /\ [] (\A k \in 1..Len(tasks) : tasks[k].status \in TaskStatuses)
  /\ [][ (lastTool'.name = "update_task") =>
           /\ Len(tasks') = Len(tasks)
           /\ \A k \in 1..Len(tasks) :
                /\ tasks'[k].id = tasks[k].id
                /\ tasks'[k].description = tasks[k].description ]_vars

\* ---------------------------------------------------------------------- C22
\* C22: the messages of a turn's first backend request are the role and
\* content of every row of the session, oldest first; the last of them is
\* the new user message, and it is there once for this turn: the list is no
\* longer than the history read back.
C22_FirstRequestReplaysHistory ==
  \A a \in Instances :
    (turn[a].pc = "awaiting" /\ turn[a].backendCalls = 1) =>
      LET rows == SessionRows(a.sessionId)
          n == Len(turn[a].messages)
      IN  /\ n = Len(rows)
          /\ \A k \in 1..n :
               turn[a].messages[k] =
                 [ role |-> rows[k].role, content |-> rows[k].content ]
          /\ \A k \in 1..(n - 1) :
               rows[k].timestamp <= rows[k + 1].timestamp
          /\ turn[a].messages[n] =
               [ role |-> "user", content |-> turn[a].userMessage ]
          /\ rows[n].role = "user"
          /\ n = 2 * calls[a.sessionId].completed
                   + calls[a.sessionId].failed + 1

\* A second turn on a session awaits its first response: its request holds
\* the first turn's user and assistant turns and then the new user message.
C22_Witness ==
  /\ turn[Orchestrator].pc = "awaiting"
  /\ turn[Orchestrator].backendCalls = 1
  /\ ~turn[Orchestrator].delegated
  /\ calls[Orchestrator.sessionId].completed = 1
  /\ Len(turn[Orchestrator].messages) = 3
  /\ turn[Orchestrator].messages[1].role = "user"
  /\ turn[Orchestrator].messages[2].role = "assistant"
  /\ turn[Orchestrator].messages[3] =
       [ role |-> "user", content |-> turn[Orchestrator].userMessage ]

\* ---------------------------------------------------------------------- C23
\* The number of turns in flight on session s.
InFlightOn(s) ==
  Cardinality({ a \in Instances : a.sessionId = s /\ InFlight(a) })

\* C23: chat writes the session log twice, the user turn when it starts and
\* the assistant turn when it returns.  A tool-use response and the tool
\* results of a round grow the working message list by two messages and
\* leave the log as it was, so the log of a session holds one row per turn
\* started and one more per turn completed, however many rounds were run.
C23_OnlyUserAndAssistantTurnsPersisted ==
  /\ [] (\A a \in Instances :
           /\ Len(SessionRows(a.sessionId))
                = 2 * calls[a.sessionId].completed
                    + calls[a.sessionId].failed + InFlightOn(a.sessionId)
           /\ turn[a].pc = "awaiting" =>
                Len(turn[a].messages)
                  = Len(SessionRows(a.sessionId)) + 2 * turn[a].toolRounds)
  /\ [][ \A a \in Instances :
           /\ (InFlight(a) /\ turn'[a].pc \in { "awaiting", "tools" }
                 /\ turn'[a] # turn[a]) =>
                conversations' = conversations
           /\ (turn[a].pc = "tools" /\ turn'[a].pc = "awaiting") =>
                /\ Len(turn'[a].messages) = Len(turn[a].messages) + 2
                /\ conversations' = conversations
           /\ (~InFlight(a) /\ turn'[a].pc = "awaiting") =>
                conversations' = Append(conversations,
                  [ sessionId |-> a.sessionId, role |-> "user",
                    content |-> turn'[a].userMessage,
                    agentRole |-> NoRole, timestamp |-> now' ])
           /\ (turn[a].pc = "awaiting" /\ turn'[a].pc = "returned") =>
                conversations' = Append(conversations,
                  [ sessionId |-> a.sessionId, role |-> "assistant",
                    content |-> turn'[a].responseText,
                    agentRole |-> a.role, timestamp |-> now' ]) ]_vars

\* A turn with one tool round has returned and the next turn on the session
\* awaits its first response: the log holds the three turns, not the round's
\* tool request and tool results.
C23_Witness ==
  /\ requests = MaxRequests
  /\ calls[Orchestrator.sessionId] =
       [ started |-> 2, completed |-> 1, failed |-> 0 ]
  /\ calls[StandAlone.sessionId].started = 0
  /\ turn[Orchestrator].pc = "awaiting"
  /\ turn[Orchestrator].backendCalls = 1
  /\ Len(turn[Orchestrator].messages) = 3
  /\ Len(SessionRows(Orchestrator.sessionId)) = 3

\* ---------------------------------------------------------------------- C24
\* C24: directives are extracted from the final response only.  While a turn
\* is in flight it has no agent response, and neither a tool-use response
\* nor a tool round stores a memory, whatever their text and results hold;
\* when the turn returns, delegateTo is set exactly when the final text has
\* a delegation directive and one memory is stored per memory directive of
\* the final text.
C24_ExtractionOnFinalTextOnly ==
  /\ [] (\A a \in Instances : InFlight(a) => turn[a].returned = << >>)
  /\ [][ \A a \in Instances :
           /\ (turn[a].pc = "awaiting" /\ turn'[a].pc = "tools") =>
                memories' = memories
           /\ (turn[a].pc = "tools" /\ turn'[a] # turn[a]) =>
                memories' = memories
           /\ (turn[a].pc = "awaiting" /\ turn'[a].pc = "returned") =>
                LET text == FirstTextOf(turn'[a].response)
                IN  /\ (turn'[a].returned.delegateTo = Undefined)
                         <=> (DelegateStarts(text) = { })
                    /\ Len(memories') = Len(memories)
                         + Cardinality(MemoryStarts(text)) ]_vars

\* The orchestrator's tool-use response carried both directives in its text
\* and requested a preference whose value, echoed in the tool's result,
\* spells both; the final answer is plain: nothing is delegated or stored.
C24_Witness ==
  /\ turn[Orchestrator].pc = "returned"
  /\ turn[Orchestrator].toolRounds = 1
  /\ "style" \in DOMAIN preferences
  /\ preferences["style"].value = DirectiveValue
  /\ turn[Orchestrator].response = << TextBlock(PlainText) >>
  /\ turn[Orchestrator].returned.delegateTo = Undefined
  /\ turn[Orchestrator].returned.memoriesToStore = Undefined
  /\ memories = StoredMemories

\* ---------------------------------------------------------------------- C25
\* C25: the step that ends a turn appends the assistant turn and then writes
\* the memories of the final text's directives, in directive order, after
\* the rows the store already had.  When the j-th write fails, chat throws
\* (nothing is returned and the call counts as failed) and the user turn,
\* the assistant turn and the j-1 memories written before remain stored.
C25_AssistantTurnThenMemoriesInOrder ==
  /\ [] (\A a \in Instances :
           turn[a].pc = "storeFailed" =>
             LET rows == SessionRows(a.sessionId)
                 n == Len(rows)
             IN  /\ turn[a].returned = << >>
                 /\ n >= 2
                 /\ rows[n].role = "assistant"
                 /\ rows[n].content = turn[a].responseText
                 /\ rows[n - 1].role = "user"
                 /\ rows[n - 1].content = turn[a].userMessage)
  /\ [][ \A a \in Instances :
           (turn[a].pc = "awaiting"
              /\ turn'[a].pc \in { "returned", "storeFailed" }) =>
             \A text \in { FirstTextOf(turn'[a].response) } :
             \A S \in { MemoryStarts(text) } :
             \A starts \in { SortedSeq(S) } :
             \A n \in { Len(memories') - Len(memories) } :
                 /\ conversations' = Append(conversations,
                      [ sessionId |-> a.sessionId, role |-> "assistant",
                        content |-> text, agentRole |-> a.role,
                        timestamp |-> now' ])
                 /\ n >= 0
                 /\ \A k \in 1..Len(memories) : memories'[k] = memories[k]
                 /\ \A k \in 1..n :
                      /\ memories'[Len(memories) + k].type
                           = DirectiveKind(text, starts[k])
                      /\ memories'[Len(memories) + k].content
                           = DirectiveContent(text, starts[k])
                 /\ turn'[a].pc = "returned" => n = Len(starts)
                 /\ turn'[a].pc = "storeFailed" =>
                      /\ n < Len(starts)
                      /\ calls'[a.sessionId].failed
                           = calls[a.sessionId].failed + 1
                      /\ calls'[a.sessionId].completed
                           = calls[a.sessionId].completed ]_vars

\* The second of two memory writes failed: the orchestrator's chat threw,
\* the session ends with its assistant turn and the first memory is stored.
C25_Witness ==
  /\ turn[Orchestrator].pc = "storeFailed"
  /\ turn[Orchestrator].responseText = DirectiveText
  /\ Len(memories) = Len(StoredMemories) + 1
  /\ memories[Len(memories)].type = << "f","a","c","t" >>
  /\ memories[Len(memories)].content = << "s","k","y" >>
  /\ SessionRows(Orchestrator.sessionId)[2].role = "assistant"
  /\ SessionRows(Orchestrator.sessionId)[2].content = DirectiveText
  /\ calls[Orchestrator.sessionId].failed = 1

Succeeded(a, j) ==
  \E k \in 1..Len(turn[a].log) :
    /\ Len(turn[a].log[k]) = 4
    /\ turn[a].log[k][2] = turn[a].toolCalls[j].id
    /\ turn[a].log[k][3] = FALSE

\* The j-th call of the last round wrote something, and no later call of the
\* round overwrote it.
LastWriteOf(a, j) ==
  /\ findTool(a.role, turn[a].toolCalls[j].name)
  /\ turn[a].toolCalls[j].name \in { "save_preference", "save_finding" }
  /\ Succeeded(a, j)
  /\ \A i \in (j + 1)..Len(turn[a].toolCalls) :
       ~ /\ turn[a].toolCalls[i].name = "save_preference"
         /\ turn[a].toolCalls[j].name = "save_preference"
         /\ turn[a].toolCalls[i].input.key = turn[a].toolCalls[j].input.key
         /\ Succeeded(a, i)

KnownKeys == { AgentKey(r) : r \in AgentRoles }

\* The steps of the team chat that enter a chat.
TurnStarts == requests' = requests + 1

\* C28: in team chat one user message causes at most two turns.  A turn is
\* started only by a prompt (the orchestrator's turn) or, once the
\* orchestrator has returned a delegateTo that names a known agent, for
\* that agent, with the same message and on the same session; after the
\* delegated agent's chat nothing is started before the next prompt,
\* whatever its delegateTo; and an orchestrator's delegateTo that names no
\* known agent starts no turn and raises no error.
C28_AtMostTwoTurnsPerMessage ==
  /\ [] (team.turns <= 2)
  /\ [][TurnStarts =>
         \/ /\ team.pc = "prompt"
            /\ team'.turns = 1
            /\ turn'[Orchestrator].pc = "awaiting"
         \/ /\ team.pc = "orchestrator"
            /\ turn[Orchestrator].pc = "returned"
            /\ turn[Orchestrator].returned.delegateTo \in KnownKeys
            /\ team'.turns = 2
            /\ \E a \in TeamAgents :
                 /\ AgentKey(a.role) = turn[Orchestrator].returned.delegateTo
                 /\ a.sessionId = Orchestrator.sessionId
                 /\ turn'[a].pc = "awaiting"
                 /\ turn'[a].userMessage = team.message]_vars
  /\ [][team.pc = "delegated" => ~TurnStarts]_vars
  /\ [][(/\ team.pc = "orchestrator"
          /\ turn[Orchestrator].pc = "returned"
          /\ turn[Orchestrator].returned.delegateTo # Undefined
          /\ turn[Orchestrator].returned.delegateTo \notin KnownKeys)
         => (~TurnStarts /\ team'.error = "none")]_vars

\* ---------------------------------------------------------------------- C29
\* C29: the workflow agent's update_task, given an id fragment, changes at
\* most one task, and only the first task of the store's listing whose id
\* contains the fragment (every id contains the empty fragment): that task
\* takes the status and the tool reports 'Task updated'.  When no id
\* contains the fragment the tool reports 'Task not found' and every task
\* is left as it was.
C29_WorkflowUpdateChangesFirstMatchOnly ==
  [][(lastTool'.role = "workflow" /\ lastTool'.name = "update_task") =>
      LET part == lastTool'.input.taskId
          listing == getTasks(tasks, NoStatus, NoRole)
          M == { j \in 1..Len(listing) : Contains(listing[j].id, part) }
          changed == { k \in 1..Len(tasks) : tasks'[k] # tasks[k] }
      IN  /\ Len(tasks') = Len(tasks)
          /\ Cardinality(changed) <= 1
          /\ \A k \in changed :
               /\ Contains(tasks[k].id, part)
               /\ tasks[k].id = listing[SetMin(M)].id
          /\ M = { } =>
               /\ tasks' = tasks
               /\ lastTool'.result = << "Task not found", part >>
          /\ M # { } =>
               /\ lastTool'.result[1] = "Task updated"
               /\ \A k \in 1..Len(tasks) :
                    tasks[k].id = listing[SetMin(M)].id =>
                      /\ tasks'[k].status = lastTool'.input.status
                      /\ tasks'[k].id = tasks[k].id
                      /\ tasks'[k].description = tasks[k].description
     ]_vars

\* Two tasks whose ids share the fragment "t": the workflow agent's
\* update_task completed the one listed first, the more recent, and left
\* the older one pending.
C29_Witness ==
  /\ Len(tasks) = 2
  /\ lastTool # << >>
  /\ lastTool.role = "workflow"
  /\ lastTool.name = "update_task"
  /\ lastTool.input.taskId = << "t" >>
  /\ lastTool.input.status = "completed"
  /\ lastTool.result[1] = "Task updated"
  /\ Contains(tasks[1].id, << "t" >>)
  /\ Contains(tasks[2].id, << "t" >>)
  /\ tasks[2].status = "completed"
  /\ tasks[2].completedAt = Date
  /\ tasks[1].status = "pending"

\* ---------------------------------------------------------------------- C30
\* The responses of one status sent so far.
Replies(status) ==
  { k \in 1..Len(web.replies) : web.replies[k].status = status }

\* C30: POST /api/chat with a missing or empty message answers 400 and
\* neither creates an agent, nor appends a conversation turn, nor calls the
\* backend.  A request whose turn fails is answered 500 and one whose turn
\* returns is answered 200, each for the agent that was asked; the server
\* stays up, so that requests after a failure are still served.
C30_RejectsEmptyAndSurvivesFailure ==
  /\ [] web.up
  /\ [] (Cardinality(Replies(500)) = calls[WebSession].failed)
  /\ [] (Cardinality(Replies(200)) = calls[WebSession].completed)
  /\ [][(Cardinality(Replies(400))' = Cardinality(Replies(400)) + 1) =>
         /\ web'.agents = web.agents
         /\ UNCHANGED << conversations, memories, preferences, requests,
                         turn, calls >>]_vars
  /\ [][\A a \in WebAgents :
          (InFlight(a) /\ turn'[a].pc \in { "failed", "returned" }) =>
            /\ Len(web'.replies) = Len(web.replies) + 1
            /\ web'.replies[Len(web'.replies)] =
                 Response(IF turn'[a].pc = "failed" THEN 500 ELSE 200,
                          a.role)]_vars

\* An empty message was answered 400 before any agent existed; then a
\* request to the orchestrator failed and was answered 500, and a later
\* request to it was served.
C30_Witness ==
  /\ Len(web.replies) = 3
  /\ web.replies[1] = Response(400, NoRole)
  /\ web.replies[2] = Response(500, "orchestrator")
  /\ web.replies[3] = Response(200, "orchestrator")
  /\ web.agents = { "orchestrator" }
  /\ web.up

====
